---- MODULE Spec2Model ----
(***************************************************************************)
(* FinanceFlow backend: the ledger of accounts, transactions and exchange  *)
(* operations kept by the Express handlers of src/server.js (the same      *)
(* handlers are repeated in src/unnamed/part_001) on the PostgreSQL schema *)
(* of src/unnamed/part_000, and the example handler of src/server.ts.      *)
(* The budget routes and the metrics dashboard of src/unnamed/part_001,    *)
(* each in its two variants, follow in sections of their own, as do the    *)
(* category and income-source routes, the authentication middleware of     *)
(* src/auth.js and the password reset of src/server.js.                    *)
(*                                                                         *)
(* Money.  The columns balance, amount, from_amount and to_amount are      *)
(* DECIMAL(15, 2): a stored value is a whole number of cents.  A request   *)
(* carries any JSON number, and node-postgres hands it to the store as it  *)
(* is.  Values that travel as statement parameters are therefore counted   *)
(* here in half-cents (0.005), stored values in cents, and every           *)
(* assignment to a DECIMAL(15, 2) column rounds half away from zero, as    *)
(* PostgreSQL's numeric does.                                              *)
(***************************************************************************)
EXTENDS Integers, FiniteSets, Sequences, TLC

\* ---------------------------------------------------------------- bounds
MaxAccounts == 2
MaxTxs == 1
MaxExchanges == 1

\* The exchanges posted by the exchange units that take the same two
\* accounts in opposite order.
MaxOpposed == 2
MaxAmount == 2
MaxBalance == 1
NumClients == 2
MaxBudgets == 2
MaxValuations == 1
MaxServed == 2
MaxLabels == 1
MaxResetTokens == 2
MaxNow == 3

\* ------------------------------------------------------------ value sets
Null == 0

UserIds == 1..2

AccountIds == 1..MaxAccounts

TxIds == 1..MaxTxs

ExchangeIds == 1..MaxExchanges

\* The ids of the rows of exchange_operations: those the requests above
\* name, and those the opposed exchange units post.
ExchangeRowIds == 1..MaxOpposed

\* What a request may carry as an account id: an id of the table's range or
\* nothing (undefined, null, "").
AccountRefs == AccountIds \cup {Null}

\* Request amounts, in half-cents: negative, zero, a sub-cent value, whole
\* cents.
Amounts == (-1)..MaxAmount

\* Amounts of the exchange requests, in half-cents: a sub-cent value and
\* whole cents.
ExchangeAmounts == {1, 2 * MaxAmount}

\* Opening balances a POST /api/accounts may carry, in half-cents.
OpeningBalances == {0, 2}

Types == {"income", "expense"}

\* The pooled connections that serve requests side by side.
Clients == 1..NumClients

BudgetIds == 1..MaxBudgets

ValuationIds == 1..MaxValuations

\* categories.id and income_sources.id
LabelIds == 1..MaxLabels

\* category_id, income_source_id: a category or a source, or null
LabelRefs == LabelIds \cup {Null}

\* currency VARCHAR(3): the two the application offers.
Currencies == {"BRL", "EUR"}

\* The date of a transaction, as far as the dashboard tells dates apart:
\* in the month and year of the request's clock, or not.
Dates == {"thisMonth", "earlier"}

\* ------------------------------------------------------------------ rows
NoAccount == [live |-> FALSE, userId |-> Null, balance |-> 0]

NoTransaction ==
    [live |-> FALSE, userId |-> Null, accountId |-> Null, type |-> "", amount |-> 0]

NoExchange ==
    [live |-> FALSE, userId |-> Null, fromAccountId |-> Null, toAccountId |-> Null,
     fromAmount |-> 0, toAmount |-> 0]

NoResponse == [op |-> "", userId |-> Null, id |-> Null, status |-> 0, error |-> ""]

\* The columns currency and is_emergency_fund of an accounts row.
NoAccountInfo == [currency |-> "BRL", isEmergencyFund |-> FALSE]

\* A row of investments (value is current_value), assets (value) or
\* liabilities (value is amount).
NoValuation == [live |-> FALSE, userId |-> Null, currency |-> "", value |-> 0]

NoBudget ==
    [live |-> FALSE, userId |-> Null, categoryId |-> Null, month |-> 0, year |-> 0,
     limitAmount |-> 0, currency |-> ""]

\* A row of categories or of income_sources.
NoLabel == [live |-> FALSE, userId |-> Null]

\* The columns category_id and income_source_id of a transactions row.
NoRefs == [categoryId |-> Null, incomeSourceId |-> Null]

\* A connection no handler has taken yet: the count of BEGIN, COMMIT and
\* ROLLBACK statements sent on it and of client.release() calls.
NoWire == [begins |-> 0, commits |-> 0, rollbacks |-> 0, releases |-> 0]

\* No POST /api/auth/reset-password in progress.
NoReset == [pc |-> "idle", userId |-> Null, token |-> Null, newPassword |-> 0]

\* No dashboard served yet.
NoMetrics == [op |-> "", userId |-> Null]

\* What a connection has written and not yet committed: the rows it holds
\* locked, and their new values.
NoWrites ==
    [accounts |-> [a \in AccountIds |-> NoAccount],
     transactions |-> [t \in TxIds |-> NoTransaction],
     exchanges |-> [e \in ExchangeRowIds |-> NoExchange]]

NoTouched == [accounts |-> {}, transactions |-> {}, exchanges |-> {}]

\* A connection in the pool.  In use it holds the handler's locals: the
\* statement it is about to run (pc), req.userId, req.params.id, req.body
\* (accountId and amount are fromAccountId and fromAmount of an exchange)
\* and the fetched row.
IdleConnection ==
    [pc |-> "idle", op |-> "", userId |-> Null, id |-> Null,
     accountId |-> Null, type |-> "", amount |-> 0, toAccountId |-> Null, toAmount |-> 0,
     oldTx |-> NoTransaction, oldEx |-> NoExchange,
     writes |-> NoWrites, touched |-> NoTouched]

VARIABLES
    accounts,        \* table accounts: id -> row
    transactions,    \* table transactions: id -> row
    exchanges,       \* table exchange_operations: id -> row
    nextAccountId,   \* accounts.id SERIAL
    nextTxId,        \* transactions.id SERIAL
    nextExId,        \* exchange_operations.id SERIAL
    res,             \* the last response sent
    conn,            \* the pooled connections: client -> its unit in progress
    budgets,         \* table budgets: id -> row
    nextBudgetId,    \* budgets.id SERIAL
    accountInfo,     \* table accounts, columns currency and is_emergency_fund
    txDates,         \* table transactions, column date
    valuations,      \* tables investments, assets, liabilities: id -> row
    metrics,         \* the last dashboard response sent
    served,          \* equal dashboard requests answered in a row since the last write
    categories,      \* table categories: id -> row
    incomeSources,   \* table income_sources: id -> row
    txRefs,          \* table transactions, columns category_id and income_source_id
    nextLabelIds,    \* categories.id SERIAL, income_sources.id SERIAL
    authorization,   \* the Authorization header of the last request, less 'Bearer '
    wire,            \* per connection, what its present or last handler sent and released
    users,           \* table users, columns password, reset_token, reset_token_expires
    now,             \* Date.now(), in half hours
    nextResetToken,  \* the uuid that generateResetToken gives out next
    resetting        \* per request in progress, the locals of POST /api/auth/reset-password

budgetVars == <<budgets, nextBudgetId>>

reportVars == <<accountInfo, txDates, valuations, metrics, served>>

ledgerVars ==
    <<accounts, transactions, exchanges, nextAccountId, nextTxId, nextExId, conn>>

labelVars == <<categories, incomeSources, txRefs, nextLabelIds>>

authVars == <<authorization>>

wireVars == <<wire>>

\* The variables the ledger, budget and dashboard requests leave alone.
resetVars == <<users, now, nextResetToken, resetting>>

\* The variables the ledger, budget and dashboard requests leave alone.
extraVars == <<labelVars, authVars, wireVars, resetVars>>

vars == <<ledgerVars, res, budgetVars, reportVars, extraVars>>

\* The three tables as one value: what a statement reads and returns.
Store == [accounts |-> accounts, transactions |-> transactions, exchanges |-> exchanges]

\* --------------------------------------------------------------- numeric
Abs(x) == IF x < 0 THEN -x ELSE x

\* A numeric in half-cents assigned to a DECIMAL(15, 2) column, in cents.
ToDecimal2(h) == IF h >= 0 THEN (h + 1) \div 2 ELSE -((1 - h) \div 2)

\* A DECIMAL(15, 2) column read back (pg returns it as a string, which the
\* handler negates or passes on), in half-cents.
FromDecimal2(c) == 2 * c

\* SET balance = balance + $1 on a DECIMAL(15, 2) column.
NumericAdd(balance, change) == ToDecimal2(FromDecimal2(balance) + change)

\* ------------------------------------------------------------ statements
\* The update of a store that keeps balances at or above zero: it changes no
\* row when the new balance would be negative.
AdjustBalanceNonNegative(d, change, id, userId) ==
    IF /\ id \in AccountIds /\ d.accounts[id].live /\ d.accounts[id].userId = userId
       /\ NumericAdd(d.accounts[id].balance, change) >= 0
    THEN [d EXCEPT !.accounts[id].balance = NumericAdd(@, change)]
    ELSE d

\* UPDATE accounts SET balance = balance + $1 WHERE id = $2 AND user_id = $3
AdjustBalance(d, change, id, userId) ==
    IF id \in AccountIds /\ d.accounts[id].live /\ d.accounts[id].userId = userId
    THEN [d EXCEPT !.accounts[id].balance = NumericAdd(@, change)]
    ELSE d

\* REFERENCES accounts(id): a null reference is accepted, any other must
\* name a stored account, whoever owns it.
AccountExists(d, id) == id = Null \/ (id \in AccountIds /\ d.accounts[id].live)

\* const balanceChange = type === 'income' ? amount : -amount
BalanceChange(type, amount) == IF type = "income" THEN amount ELSE -amount

\* The reversal of a handler that takes every old row for an expense.
OldBalanceChangeOfExpense(old) == FromDecimal2(old.amount)

\* const oldBalanceChange = old.type === 'income' ? -old.amount : old.amount
OldBalanceChange(old) ==
    IF old.type = "income" THEN -FromDecimal2(old.amount) ELSE FromDecimal2(old.amount)

\* The fetch without its user_id condition.
SelectTransactionOfAnyUser(d, id, userId) ==
    IF id \in TxIds /\ d.transactions[id].live THEN {d.transactions[id]} ELSE {}

\* SELECT * FROM transactions WHERE id = $1 AND user_id = $2
SelectTransaction(d, id, userId) ==
    IF id \in TxIds /\ d.transactions[id].live /\ d.transactions[id].userId = userId
    THEN {d.transactions[id]}
    ELSE {}

\* INSERT INTO transactions (user_id, account_id, ..., type, amount, ...)
InsertTransaction(d, id, userId, accountId, type, amount) ==
    [d EXCEPT !.transactions[id] =
        [live |-> TRUE, userId |-> userId, accountId |-> accountId, type |-> type,
         amount |-> ToDecimal2(amount)]]

\* UPDATE transactions SET account_id = $1, ..., type = $4, amount = $5, ...
\* WHERE id = $8 AND user_id = $9
UpdateTransactionRow(d, id, userId, accountId, type, amount) ==
    IF SelectTransaction(d, id, userId) # {}
    THEN [d EXCEPT !.transactions[id] =
            [@ EXCEPT !.accountId = accountId, !.type = type,
                      !.amount = ToDecimal2(amount)]]
    ELSE d

\* DELETE FROM transactions WHERE id = $1 AND user_id = $2
DeleteTransactionRow(d, id, userId) ==
    IF SelectTransaction(d, id, userId) # {}
    THEN [d EXCEPT !.transactions[id] = NoTransaction]
    ELSE d

\* SELECT * FROM exchange_operations WHERE id = $1 AND user_id = $2
SelectExchange(d, id, userId) ==
    IF id \in ExchangeRowIds /\ d.exchanges[id].live /\ d.exchanges[id].userId = userId
    THEN {d.exchanges[id]}
    ELSE {}

\* INSERT INTO exchange_operations (user_id, from_account_id, to_account_id,
\* from_amount, to_amount, ...)
InsertExchange(d, id, userId, fromAccountId, toAccountId, fromAmount, toAmount) ==
    [d EXCEPT !.exchanges[id] =
        [live |-> TRUE, userId |-> userId, fromAccountId |-> fromAccountId,
         toAccountId |-> toAccountId, fromAmount |-> ToDecimal2(fromAmount),
         toAmount |-> ToDecimal2(toAmount)]]

\* UPDATE exchange_operations SET from_account_id = $1, to_account_id = $2,
\* from_amount = $3, to_amount = $4, ... WHERE id = $9 AND user_id = $10
UpdateExchangeRow(d, id, userId, fromAccountId, toAccountId, fromAmount, toAmount) ==
    IF SelectExchange(d, id, userId) # {}
    THEN [d EXCEPT !.exchanges[id] =
            [@ EXCEPT !.fromAccountId = fromAccountId, !.toAccountId = toAccountId,
                      !.fromAmount = ToDecimal2(fromAmount),
                      !.toAmount = ToDecimal2(toAmount)]]
    ELSE d

\* DELETE FROM exchange_operations WHERE id = $1 AND user_id = $2
DeleteExchangeRow(d, id, userId) ==
    IF SelectExchange(d, id, userId) # {}
    THEN [d EXCEPT !.exchanges[id] = NoExchange]
    ELSE d

\* UPDATE accounts SET balance = balance - $1 ...; UPDATE accounts SET
\* balance = balance + $1 ...: the two legs of an exchange, applied.
ApplyExchange(d, userId, fromAccountId, toAccountId, fromAmount, toAmount) ==
    AdjustBalance(AdjustBalance(d, -fromAmount, fromAccountId, userId),
                  toAmount, toAccountId, userId)

\* UPDATE accounts SET balance = balance + old.from_amount ...; UPDATE
\* accounts SET balance = balance - old.to_amount ...: the legs reversed.
ReverseExchange(d, userId, old) ==
    AdjustBalance(AdjustBalance(d, FromDecimal2(old.fromAmount), old.fromAccountId, userId),
                  -FromDecimal2(old.toAmount), old.toAccountId, userId)

\* DELETE FROM accounts WHERE id = $1 AND user_id = $2, with the ON DELETE
\* CASCADE of transactions.account_id, exchange_operations.from_account_id
\* and exchange_operations.to_account_id.
DeleteAccountRow(d, id, userId) ==
    IF id \in AccountIds /\ d.accounts[id].live /\ d.accounts[id].userId = userId
    THEN [accounts |-> [d.accounts EXCEPT ![id] = NoAccount],
          transactions |->
            [t \in TxIds |->
                IF d.transactions[t].live /\ d.transactions[t].accountId = id
                THEN NoTransaction ELSE d.transactions[t]],
          exchanges |->
            [e \in ExchangeRowIds |->
                IF d.exchanges[e].live
                   /\ (d.exchanges[e].fromAccountId = id \/ d.exchanges[e].toAccountId = id)
                THEN NoExchange ELSE d.exchanges[e]]]
    ELSE d

\* ------------------------------------------------- the units' statements
\* POST /api/transactions between BEGIN and COMMIT: the insert, then the
\* balance of the account named in the body.
CreateTransactionUnit(d, id, userId, accountId, type, amount) ==
    AdjustBalance(InsertTransaction(d, id, userId, accountId, type, amount),
                  BalanceChange(type, amount), accountId, userId)

\* PUT /api/transactions/:id after the fetch: the old balance reverted.
RevertTransaction(d, userId, old) ==
    AdjustBalance(d, OldBalanceChange(old), old.accountId, userId)

\* PUT /api/transactions/:id after the reversal: the row, then the new
\* balance.
ReapplyTransaction(d, id, userId, accountId, type, amount) ==
    AdjustBalance(UpdateTransactionRow(d, id, userId, accountId, type, amount),
                  BalanceChange(type, amount), accountId, userId)

\* PUT /api/transactions/:id from the fetched row to COMMIT.
UpdateTransactionUnit(d, id, userId, old, accountId, type, amount) ==
    ReapplyTransaction(RevertTransaction(d, userId, old), id, userId, accountId, type, amount)

\* DELETE /api/transactions/:id from the fetched row to COMMIT.
DeleteTransactionUnit(d, id, userId, old) ==
    DeleteTransactionRow(RevertTransaction(d, userId, old), id, userId)

\* POST /api/exchanges between BEGIN and COMMIT.
CreateExchangeUnit(d, id, userId, fromAccountId, toAccountId, fromAmount, toAmount) ==
    ApplyExchange(
        InsertExchange(d, id, userId, fromAccountId, toAccountId, fromAmount, toAmount),
        userId, fromAccountId, toAccountId, fromAmount, toAmount)

\* PUT /api/exchanges/:id from the fetched row to COMMIT.
UpdateExchangeUnit(d, id, userId, old, fromAccountId, toAccountId, fromAmount, toAmount) ==
    ApplyExchange(
        UpdateExchangeRow(ReverseExchange(d, userId, old), id, userId,
                          fromAccountId, toAccountId, fromAmount, toAmount),
        userId, fromAccountId, toAccountId, fromAmount, toAmount)

\* DELETE /api/exchanges/:id from the fetched row to COMMIT.
DeleteExchangeUnit(d, id, userId, old) ==
    DeleteExchangeRow(ReverseExchange(d, userId, old), id, userId)

\* ------------------------------------------------------------- requests
\* COMMIT: the unit's statements take effect together.
Commit(d) ==
    /\ accounts' = d.accounts
    /\ transactions' = d.transactions
    /\ exchanges' = d.exchanges

\* ROLLBACK: none of them does.
Rollback == UNCHANGED <<accounts, transactions, exchanges>>

\* res.status(...).json(...), and the statement whose error the handler
\* logged with console.error ("" when none was thrown).
Respond(op, userId, id, status, error) ==
    res' = [op |-> op, userId |-> userId, id |-> id, status |-> status, error |-> error]

\* Requests are taken while every balance is inside the window the model
\* explores.
InWindow == \A a \in AccountIds : Abs(accounts[a].balance) <= MaxBalance

\* POST /api/accounts
CreateAccount(userId, balance) ==
    /\ nextAccountId <= MaxAccounts
    /\ accounts' = [accounts EXCEPT ![nextAccountId] =
            [live |-> TRUE, userId |-> userId, balance |-> ToDecimal2(balance)]]
    /\ nextAccountId' = nextAccountId + 1
    /\ Respond("createAccount", userId, nextAccountId, 200, "")
    /\ UNCHANGED <<transactions, exchanges, nextTxId, nextExId, conn>>

\* DELETE /api/accounts/:id
DeleteAccount(userId, id) ==
    /\ Commit(DeleteAccountRow(Store, id, userId))
    /\ Respond("deleteAccount", userId, id, 200, "")
    /\ UNCHANGED <<nextAccountId, nextTxId, nextExId, conn>>

\* POST /api/transactions from BEGIN to the response, as the store it leaves
\* and the status it answers.  The insert throws on an account id that names
\* no stored account (foreign key), whoever owns the stored ones.
PostTransaction(d, id, userId, accountId, type, amount) ==
    IF AccountExists(d, accountId)
    THEN [store |-> CreateTransactionUnit(d, id, userId, accountId, type, amount),
          status |-> 200, error |-> ""]
    ELSE [store |-> d, status |-> 500, error |-> "insert"]

\* POST /api/transactions.  The sequence keeps the id it gave out.
CreateTransaction(userId, accountId, type, amount) ==
    /\ InWindow
    /\ nextTxId <= MaxTxs
    /\ nextTxId' = nextTxId + 1
    /\ LET out == PostTransaction(Store, nextTxId, userId, accountId, type, amount) IN
        /\ Commit(out.store)
        /\ Respond("createTransaction", userId, nextTxId, out.status, out.error)
    /\ UNCHANGED <<nextAccountId, nextExId, conn>>

\* PUT /api/transactions/:id
UpdateTransaction(userId, id, accountId, type, amount) ==
    /\ InWindow
    /\ LET found == SelectTransaction(Store, id, userId) IN
       IF found = {}
       THEN /\ Rollback
            /\ Respond("updateTransaction", userId, id, 404, "")
       ELSE IF AccountExists(Store, accountId)
            THEN /\ Commit(UpdateTransactionUnit(Store, id, userId, CHOOSE r \in found : TRUE,
                                                 accountId, type, amount))
                 /\ Respond("updateTransaction", userId, id, 200, "")
            ELSE /\ Rollback
                 /\ Respond("updateTransaction", userId, id, 500, "mutate")
    /\ UNCHANGED <<nextAccountId, nextTxId, nextExId, conn>>

\* DELETE /api/transactions/:id
DeleteTransaction(userId, id) ==
    /\ InWindow
    /\ LET found == SelectTransaction(Store, id, userId) IN
       IF found = {}
       THEN /\ Rollback
            /\ Respond("deleteTransaction", userId, id, 404, "")
       ELSE /\ Commit(DeleteTransactionUnit(Store, id, userId, CHOOSE r \in found : TRUE))
            /\ Respond("deleteTransaction", userId, id, 200, "")
    /\ UNCHANGED <<nextAccountId, nextTxId, nextExId, conn>>

\* POST /api/exchanges from BEGIN to the response, as the store it leaves
\* and the status it answers.
PostExchange(d, id, userId, fromAccountId, toAccountId, fromAmount, toAmount) ==
    IF AccountExists(d, fromAccountId) /\ AccountExists(d, toAccountId)
    THEN [store |-> CreateExchangeUnit(d, id, userId, fromAccountId, toAccountId,
                                       fromAmount, toAmount),
          status |-> 200, error |-> ""]
    ELSE [store |-> d, status |-> 500, error |-> "insert"]

\* POST /api/exchanges
CreateExchange(userId, fromAccountId, toAccountId, fromAmount, toAmount) ==
    /\ InWindow
    /\ nextExId <= MaxExchanges
    /\ nextExId' = nextExId + 1
    /\ LET out == PostExchange(Store, nextExId, userId, fromAccountId, toAccountId,
                               fromAmount, toAmount) IN
        /\ Commit(out.store)
        /\ Respond("createExchange", userId, nextExId, out.status, out.error)
    /\ UNCHANGED <<nextAccountId, nextTxId, conn>>

\* PUT /api/exchanges/:id
UpdateExchange(userId, id, fromAccountId, toAccountId, fromAmount, toAmount) ==
    /\ InWindow
    /\ LET found == SelectExchange(Store, id, userId) IN
       IF found = {}
       THEN /\ Rollback
            /\ Respond("updateExchange", userId, id, 404, "")
       ELSE IF AccountExists(Store, fromAccountId) /\ AccountExists(Store, toAccountId)
            THEN /\ Commit(UpdateExchangeUnit(Store, id, userId, CHOOSE r \in found : TRUE,
                                              fromAccountId, toAccountId, fromAmount, toAmount))
                 /\ Respond("updateExchange", userId, id, 200, "")
            ELSE /\ Rollback
                 /\ Respond("updateExchange", userId, id, 500, "mutate")
    /\ UNCHANGED <<nextAccountId, nextTxId, nextExId, conn>>

\* DELETE /api/exchanges/:id
DeleteExchange(userId, id) ==
    /\ InWindow
    /\ LET found == SelectExchange(Store, id, userId) IN
       IF found = {}
       THEN /\ Rollback
            /\ Respond("deleteExchange", userId, id, 404, "")
       ELSE /\ Commit(DeleteExchangeUnit(Store, id, userId, CHOOSE r \in found : TRUE))
            /\ Respond("deleteExchange", userId, id, 200, "")
    /\ UNCHANGED <<nextAccountId, nextTxId, nextExId, conn>>

\* --------------------------------------------- units, statement by statement
\* READ COMMITTED: a statement of connection c reads what is committed and
\* what c itself has written.
View(c) ==
    [accounts |-> [a \in AccountIds |->
        IF a \in conn[c].touched.accounts THEN conn[c].writes.accounts[a] ELSE accounts[a]],
     transactions |-> [t \in TxIds |->
        IF t \in conn[c].touched.transactions
        THEN conn[c].writes.transactions[t] ELSE transactions[t]],
     exchanges |-> [e \in ExchangeRowIds |->
        IF e \in conn[c].touched.exchanges THEN conn[c].writes.exchanges[e] ELSE exchanges[e]]]

\* The rows of d that a connection keeps as its own writes.
Written(d, touched) ==
    [accounts |-> [a \in AccountIds |->
        IF a \in touched.accounts THEN d.accounts[a] ELSE NoAccount],
     transactions |-> [t \in TxIds |->
        IF t \in touched.transactions THEN d.transactions[t] ELSE NoTransaction],
     exchanges |-> [e \in ExchangeRowIds |->
        IF e \in touched.exchanges THEN d.exchanges[e] ELSE NoExchange]]

\* A store without row locks: no statement waits.
Unlocked(c, touched) == TRUE

\* A row written by another connection's open unit is locked: a statement
\* that writes it waits for that unit to end.
Free(c, touched) ==
    \A o \in Clients \ {c} :
        /\ touched.accounts \cap conn[o].touched.accounts = {}
        /\ touched.transactions \cap conn[o].touched.transactions = {}
        /\ touched.exchanges \cap conn[o].touched.exchanges = {}

\* The statement that follows pc in the handler of op ("" after COMMIT).
NextPc(op, pc) ==
    CASE pc = "select" ->
            IF op \in {"updateTransaction", "deleteTransaction"} THEN "revert" ELSE "revertFrom"
      [] pc = "revert" -> "mutate"
      [] pc = "revertFrom" -> "revertTo"
      [] pc = "revertTo" -> "mutate"
      [] pc = "insert" -> IF op = "createTransaction" THEN "apply" ELSE "applyFrom"
      [] pc = "mutate" ->
            IF op = "updateTransaction" THEN "apply"
            ELSE IF op = "updateExchange" THEN "applyFrom" ELSE "commit"
      [] pc = "applyFrom" -> "applyTo"
      [] pc = "apply" -> "commit"
      [] pc = "applyTo" -> "commit"
      [] OTHER -> ""

\* The handler's first statement after BEGIN.
FirstPc(op) == IF op \in {"createTransaction", "createExchange"} THEN "insert" ELSE "select"

\* The rows the UPDATE accounts statement matches, and so locks.
AdjustedRows(d, id, userId) ==
    {a \in AccountIds : a = id /\ d.accounts[a].live /\ d.accounts[a].userId = userId}

\* $1 and $2 of the UPDATE accounts statement at k.pc.
AdjustArgs(k) ==
    CASE k.pc = "revert" ->
            [change |-> OldBalanceChange(k.oldTx), id |-> k.oldTx.accountId]
      [] k.pc = "apply" ->
            [change |-> BalanceChange(k.type, k.amount), id |-> k.accountId]
      [] k.pc = "revertFrom" ->
            [change |-> FromDecimal2(k.oldEx.fromAmount), id |-> k.oldEx.fromAccountId]
      [] k.pc = "revertTo" ->
            [change |-> -FromDecimal2(k.oldEx.toAmount), id |-> k.oldEx.toAccountId]
      [] k.pc = "applyFrom" -> [change |-> -k.amount, id |-> k.accountId]
      [] k.pc = "applyTo" -> [change |-> k.toAmount, id |-> k.toAccountId]

\* The connection after a statement that left it d and wrote the rows in
\* touched; id is the record the unit is about (result.rows[0].id of a
\* create).
Proceed(c, id, d, touched) ==
    LET all == [accounts |-> conn[c].touched.accounts \cup touched.accounts,
                transactions |-> conn[c].touched.transactions \cup touched.transactions,
                exchanges |-> conn[c].touched.exchanges \cup touched.exchanges]
    IN  /\ Free(c, touched)
        /\ conn' = [conn EXCEPT ![c] =
                [@ EXCEPT !.pc = NextPc(conn[c].op, conn[c].pc), !.id = id,
                          !.writes = Written(d, all), !.touched = all]]
        /\ UNCHANGED wire

\* A unit that ends without its ROLLBACK taking back what it wrote.
KeepsWrites(c) == View(c)

\* What ROLLBACK leaves of the store when connection c ends its unit.
RolledBack(c) == Store

\* A handler that answers 404 without a ROLLBACK.
ExitLeavingUnitOpen(w, status) ==
    [w EXCEPT !.commits = @ + (IF status = 200 THEN 1 ELSE 0),
              !.rollbacks = @ + (IF status = 500 THEN 1 ELSE 0),
              !.releases = @ + 1]

\* What a handler sends on its way out, by the status it answers: COMMIT
\* before res.json, ROLLBACK before the 404 and in the catch block, and
\* client.release() in the finally block of all three.
Exit(w, status) ==
    [w EXCEPT !.commits = @ + (IF status = 200 THEN 1 ELSE 0),
              !.rollbacks = @ + (IF status \in {404, 500} THEN 1 ELSE 0),
              !.releases = @ + 1]

\* The way out of a handler: the response, and finally client.release().
Finish(c, d, status, error) ==
    /\ Commit(d)
    /\ Respond(conn[c].op, conn[c].userId, conn[c].id, status, error)
    /\ conn' = [conn EXCEPT ![c] = IdleConnection]
    /\ wire' = [wire EXCEPT ![c] = Exit(@, status)]

\* pool.connect(), BEGIN and the destructuring of req.params and req.body.
\* The pool hands out its first free connection.  A create is taken while
\* the sequence has an id left for it, of the maxEx ids for exchanges.
BeginWithin(maxEx, c, op, userId, id, accountId, type, amount, toAccountId, toAmount) ==
    /\ conn[c].pc = "idle"
    /\ \A o \in Clients : o < c => conn[o].pc # "idle"
    /\ InWindow
    /\ op = "createTransaction" =>
            nextTxId + Cardinality({o \in Clients : conn[o].op = op /\ conn[o].pc = "insert"})
                <= MaxTxs
    /\ op = "createExchange" =>
            nextExId + Cardinality({o \in Clients : conn[o].op = op /\ conn[o].pc = "insert"})
                <= maxEx
    /\ conn' = [conn EXCEPT ![c] =
            [IdleConnection EXCEPT !.pc = FirstPc(op), !.op = op, !.userId = userId,
                !.id = id, !.accountId = accountId, !.type = type, !.amount = amount,
                !.toAccountId = toAccountId, !.toAmount = toAmount]]
    /\ wire' = [wire EXCEPT ![c] = [NoWire EXCEPT !.begins = 1]]
    /\ UNCHANGED <<accounts, transactions, exchanges, nextAccountId, nextTxId, nextExId, res>>
    /\ UNCHANGED <<budgetVars, reportVars, labelVars, authVars, resetVars>>

Begin(c, op, userId, id, accountId, type, amount, toAccountId, toAmount) ==
    BeginWithin(MaxExchanges, c, op, userId, id, accountId, type, amount, toAccountId,
                toAmount)

\* SELECT * FROM transactions / exchange_operations WHERE id = $1 AND
\* user_id = $2; no row: ROLLBACK and 404.
UnitSelect(c) ==
    /\ UNCHANGED <<budgetVars, reportVars, labelVars, authVars, resetVars>>
    /\ conn[c].pc = "select"
    /\ LET k == conn[c]
           found == IF k.op \in {"updateTransaction", "deleteTransaction"}
                    THEN SelectTransaction(View(c), k.id, k.userId)
                    ELSE SelectExchange(View(c), k.id, k.userId)
       IN  IF found = {}
           THEN /\ Finish(c, RolledBack(c), 404, "")
                /\ UNCHANGED <<nextAccountId, nextTxId, nextExId>>
           ELSE /\ conn' = [conn EXCEPT ![c] =
                    IF k.op \in {"updateTransaction", "deleteTransaction"}
                    THEN [@ EXCEPT !.pc = NextPc(k.op, "select"),
                                   !.oldTx = CHOOSE r \in found : TRUE]
                    ELSE [@ EXCEPT !.pc = NextPc(k.op, "select"),
                                   !.oldEx = CHOOSE r \in found : TRUE]]
                /\ UNCHANGED <<accounts, transactions, exchanges, nextAccountId, nextTxId,
                               nextExId, res, wire>>

\* INSERT INTO transactions / exchange_operations ... RETURNING *; it throws
\* on an account id that names no stored account.
UnitInsert(c) ==
    /\ UNCHANGED <<budgetVars, reportVars, labelVars, authVars, resetVars>>
    /\ conn[c].pc = "insert"
    /\ LET k == conn[c] IN
       IF k.op = "createTransaction"
       THEN /\ nextTxId' = nextTxId + 1
            /\ UNCHANGED <<nextAccountId, nextExId>>
            /\ IF AccountExists(View(c), k.accountId)
               THEN /\ Proceed(c, nextTxId,
                               InsertTransaction(View(c), nextTxId, k.userId, k.accountId,
                                                 k.type, k.amount),
                               [NoTouched EXCEPT !.transactions = {nextTxId}])
                    /\ UNCHANGED <<accounts, transactions, exchanges, res>>
               ELSE Finish(c, RolledBack(c), 500, "insert")
       ELSE /\ nextExId' = nextExId + 1
            /\ UNCHANGED <<nextAccountId, nextTxId>>
            /\ IF AccountExists(View(c), k.accountId) /\ AccountExists(View(c), k.toAccountId)
               THEN /\ Proceed(c, nextExId,
                               InsertExchange(View(c), nextExId, k.userId, k.accountId,
                                              k.toAccountId, k.amount, k.toAmount),
                               [NoTouched EXCEPT !.exchanges = {nextExId}])
                    /\ UNCHANGED <<accounts, transactions, exchanges, res>>
               ELSE Finish(c, RolledBack(c), 500, "insert")

\* UPDATE accounts SET balance = balance +/- $1 WHERE id = $2 AND user_id = $3
UnitAdjust(c) ==
    /\ UNCHANGED <<budgetVars, reportVars, labelVars, authVars, resetVars>>
    /\ conn[c].pc \in {"revert", "apply", "revertFrom", "revertTo", "applyFrom", "applyTo"}
    /\ LET k == conn[c]
           args == AdjustArgs(k)
           d == AdjustBalance(View(c), args.change, args.id, k.userId)
       IN  Proceed(c, k.id, d, [NoTouched EXCEPT !.accounts =
                            AdjustedRows(View(c), args.id, k.userId)])
    /\ UNCHANGED <<accounts, transactions, exchanges, nextAccountId, nextTxId, nextExId, res>>

\* UPDATE / DELETE of the transactions or exchange_operations row; the
\* UPDATE throws on an account id that names no stored account.
UnitMutate(c) ==
    /\ UNCHANGED <<budgetVars, reportVars, labelVars, authVars, resetVars>>
    /\ conn[c].pc = "mutate"
    /\ UNCHANGED <<nextAccountId, nextTxId, nextExId>>
    /\ LET k == conn[c]
           v == View(c)
           isTx == k.op \in {"updateTransaction", "deleteTransaction"}
           hit == IF isTx
                  THEN [NoTouched EXCEPT !.transactions =
                            IF SelectTransaction(v, k.id, k.userId) = {} THEN {} ELSE {k.id}]
                  ELSE [NoTouched EXCEPT !.exchanges =
                            IF SelectExchange(v, k.id, k.userId) = {} THEN {} ELSE {k.id}]
           fkOk == CASE k.op = "updateTransaction" -> AccountExists(v, k.accountId)
                     [] k.op = "updateExchange" ->
                            AccountExists(v, k.accountId) /\ AccountExists(v, k.toAccountId)
                     [] OTHER -> TRUE
           d == CASE k.op = "updateTransaction" ->
                        UpdateTransactionRow(v, k.id, k.userId, k.accountId, k.type, k.amount)
                  [] k.op = "deleteTransaction" -> DeleteTransactionRow(v, k.id, k.userId)
                  [] k.op = "updateExchange" ->
                        UpdateExchangeRow(v, k.id, k.userId, k.accountId, k.toAccountId,
                                          k.amount, k.toAmount)
                  [] OTHER -> DeleteExchangeRow(v, k.id, k.userId)
       IN  IF fkOk
           THEN /\ Proceed(c, k.id, d, hit)
                /\ UNCHANGED <<accounts, transactions, exchanges, res>>
           ELSE /\ Free(c, hit)
                /\ Finish(c, RolledBack(c), 500, "mutate")

\* COMMIT and res.json(...)
UnitCommit(c) ==
    /\ UNCHANGED <<budgetVars, reportVars, labelVars, authVars, resetVars>>
    /\ conn[c].pc = "commit"
    /\ Finish(c, View(c), 200, "")
    /\ UNCHANGED <<nextAccountId, nextTxId, nextExId>>

\* A statement of the unit throws (the store fails it): the catch block
\* runs ROLLBACK and answers 500.
UnitFail(c) ==
    /\ UNCHANGED <<budgetVars, reportVars, labelVars, authVars, resetVars>>
    /\ conn[c].pc # "idle"
    /\ Finish(c, RolledBack(c), 500, conn[c].pc)
    /\ UNCHANGED <<nextAccountId, nextTxId, nextExId>>

\* The rows the UPDATE accounts statement that connection c is about to
\* run has to lock.
Wanted(c) ==
    IF conn[c].pc \in {"revert", "apply", "revertFrom", "revertTo", "applyFrom", "applyTo"}
    THEN AdjustedRows(View(c), AdjustArgs(conn[c]).id, conn[c].userId)
    ELSE {}

\* The statement of c waits for a row that the open unit of o has written.
WaitsFor(c, o) == o # c /\ Wanted(c) \cap conn[o].touched.accounts # {}

\* A store that lets two units wait for each other.
NoDeadlockDetection(c) == FALSE

\* The store finds connection c and another one waiting for each other's
\* rows and fails the statement of c: the catch block runs ROLLBACK and
\* answers 500, and the rows of c are free for the other unit.
UnitDeadlock(c) ==
    /\ UNCHANGED <<budgetVars, reportVars, labelVars, authVars, resetVars>>
    /\ \E o \in Clients : WaitsFor(c, o) /\ WaitsFor(o, c)
    /\ Finish(c, RolledBack(c), 500, "deadlock")
    /\ UNCHANGED <<nextAccountId, nextTxId, nextExId>>

\* ------------------------------------------------- server.ts, the example route
\* const balanceAdjustment = type === 'INCOME' ? amount : -amount
TsBalanceAdjustment(type, amount) == IF type = "INCOME" THEN amount ELSE -amount

\* UPDATE accounts SET balance = balance + $1 WHERE id = $2
TsAdjustBalance(d, change, id) ==
    IF id \in AccountIds /\ d.accounts[id].live
    THEN [d EXCEPT !.accounts[id].balance = NumericAdd(@, change)]
    ELSE d

\* POST /api/transactions of server.ts
TsCreateTransaction(userId, accountId, type, amount) ==
    /\ InWindow
    /\ nextTxId <= MaxTxs
    /\ nextTxId' = nextTxId + 1
    /\ IF AccountExists(Store, accountId)
       THEN /\ Commit(TsAdjustBalance(
                    InsertTransaction(Store, nextTxId, userId, accountId, type, amount),
                    TsBalanceAdjustment(type, amount), accountId))
            /\ Respond("tsCreateTransaction", userId, nextTxId, 201, "")
       ELSE /\ Rollback
            /\ Respond("tsCreateTransaction", userId, nextTxId, 500, "insert")
    /\ UNCHANGED <<nextAccountId, nextExId, conn>>

\* --------------------------------------------------------- authentication
\* A token no jwt.verify accepts: a wrong signature, an expired token.
InvalidToken == 3

\* The Authorization headers of the requests: none, a token generateToken
\* signed for a user (written as the userId of its payload), a token that
\* does not verify.
Authorizations == {Null} \cup UserIds \cup {InvalidToken}

\* verifyToken: the payload jwt.verify returns, null when it throws.
VerifyToken(token) ==
    IF token \in UserIds
    THEN [verified |-> TRUE, userId |-> token]
    ELSE [verified |-> FALSE, userId |-> Null]

\* authMiddleware: 401 without a token, 401 when the token does not verify,
\* else req.userId = decoded.userId and next().
AuthMiddleware(token) ==
    IF token = Null
    THEN [next |-> FALSE, userId |-> Null, status |-> 401, error |-> "Token nao fornecido"]
    ELSE LET decoded == VerifyToken(token)
         IN  IF ~decoded.verified
             THEN [next |-> FALSE, userId |-> Null, status |-> 401, error |-> "Token invalido"]
             ELSE [next |-> TRUE, userId |-> decoded.userId, status |-> 0, error |-> ""]

\* app.<method>(path, authMiddleware, handler): the handler runs with the
\* userId of the token when the middleware calls next(), and not at all when
\* it answers.
Authenticated(token, op, Handler(_)) ==
    LET auth == AuthMiddleware(token)
    IN  /\ authorization' = token
        /\ UNCHANGED <<budgetVars, reportVars, labelVars, wireVars, resetVars>>
        /\ IF auth.next
           THEN Handler(auth.userId)
           ELSE /\ Respond(op, Null, Null, auth.status, auth.error)
                /\ UNCHANGED ledgerVars

\* req.user of server.ts: the file registers no middleware that sets it.
TsReqUser(token) == Null

\* GET /api/accounts of server.ts, registered without a middleware.
\* req.user.id is read outside the try: with req.user undefined the handler
\* throws before any query, and the request is left unanswered (status 0) or
\* answered 500 by the framework's error handler.
TsGetAccounts(token) ==
    /\ authorization' = token
    /\ IF TsReqUser(token) = Null
       THEN \E status \in {0, 500} : Respond("tsGetAccounts", Null, Null, status, "TypeError")
       ELSE Respond("tsGetAccounts", TsReqUser(token), Null, 200, "")
    /\ UNCHANGED <<ledgerVars, budgetVars, reportVars, labelVars, wireVars, resetVars>>

\* POST /api/transactions of server.ts, registered without a middleware.
\* The handler takes a connection and sends BEGIN; req.user.id is read while
\* the parameters of the INSERT are built, inside the try: with req.user
\* undefined it throws, and the catch sends ROLLBACK and answers 500.
TsPostTransaction(token, accountId, type, amount) ==
    /\ authorization' = token
    /\ IF TsReqUser(token) = Null
       THEN /\ Rollback
            /\ Respond("tsCreateTransaction", Null, Null, 500, "TypeError")
            /\ UNCHANGED <<nextAccountId, nextTxId, nextExId, conn>>
       ELSE TsCreateTransaction(TsReqUser(token), accountId, type, amount)
    /\ UNCHANGED <<budgetVars, reportVars, labelVars, wireVars, resetVars>>

\* ----------------------------------------------------------- password reset
\* const expiresAt = Date.now() + 3600000: one hour, in half hours.
Hour == 2

\* The tokens a request can present: those generateResetToken has given
\* out or will, and none.
ResetTokens == (1..MaxResetTokens) \cup {Null}

\* The passwords a request can ask for.
NewPasswords == {1, 2}

\* hashPassword: bcrypt.hash(password, 10).
HashPassword(password) == [bcrypt |-> password]

\* SELECT * FROM users WHERE reset_token = $1 AND reset_token_expires > $2.
\* A null token equals no stored one.
SelectByResetToken(t, token, at) ==
    {u \in UserIds :
        /\ token # Null
        /\ t[u].resetToken = token
        /\ t[u].resetTokenExpires > at}

\* POST /api/auth/forgot-password for the email of user u (null: an email
\* no user has): UPDATE users SET reset_token = $1, reset_token_expires = $2
\* WHERE id = $3 with a new token, and the same answer either way.
ForgotPassword(u) ==
    /\ IF u # Null
       THEN /\ nextResetToken <= MaxResetTokens
            /\ users' = [users EXCEPT ![u] =
                    [@ EXCEPT !.resetToken = nextResetToken,
                              !.resetTokenExpires = now + Hour]]
            /\ nextResetToken' = nextResetToken + 1
       ELSE UNCHANGED <<users, nextResetToken>>
    /\ Respond("forgotPassword", u, Null, 200, "")
    /\ UNCHANGED <<now, resetting>>
    /\ UNCHANGED <<ledgerVars, budgetVars, reportVars, labelVars, authVars, wireVars>>

\* POST /api/auth/reset-password up to its fetch: 400 when no row is found,
\* else the handler goes on to await hashPassword.
ResetSelect(c, token, newPassword) ==
    /\ resetting[c].pc = "idle"
    /\ LET found == SelectByResetToken(users, token, now) IN
       IF found = {}
       THEN /\ Respond("resetPassword", Null, token, 400, "")
            /\ UNCHANGED resetting
       ELSE /\ resetting' = [resetting EXCEPT ![c] =
                    [pc |-> "hash", userId |-> CHOOSE u \in found : TRUE,
                     token |-> token, newPassword |-> newPassword]]
            /\ UNCHANGED res
    /\ UNCHANGED <<users, now, nextResetToken>>
    /\ UNCHANGED <<ledgerVars, budgetVars, reportVars, labelVars, authVars, wireVars>>

\* POST /api/auth/reset-password after hashPassword: UPDATE users SET
\* password = $1, reset_token = NULL, reset_token_expires = NULL WHERE id =
\* $2, and the answer.
ResetUpdate(c) ==
    /\ resetting[c].pc = "hash"
    /\ users' = [users EXCEPT ![resetting[c].userId] =
            [password |-> HashPassword(resetting[c].newPassword),
             resetToken |-> Null, resetTokenExpires |-> Null]]
    /\ Respond("resetPassword", resetting[c].userId, resetting[c].token, 200, "")
    /\ resetting' = [resetting EXCEPT ![c] = NoReset]
    /\ UNCHANGED <<now, nextResetToken>>
    /\ UNCHANGED <<ledgerVars, budgetVars, reportVars, labelVars, authVars, wireVars>>

\* Half an hour passes.
Tick ==
    /\ now < MaxNow
    /\ now' = now + 1
    /\ UNCHANGED <<users, nextResetToken, resetting, res>>
    /\ UNCHANGED <<ledgerVars, budgetVars, reportVars, labelVars, authVars, wireVars>>

\* ---------------------------------------------------------------- budgets
\* UNIQUE(user_id, category_id, month, year, currency): the stored budgets
\* that bar a new row with this key.  A null category_id equals no other.
BudgetConflicts(t, userId, categoryId, month, year, currency) ==
    {b \in BudgetIds :
        /\ t[b].live
        /\ categoryId # Null
        /\ t[b].userId = userId
        /\ t[b].categoryId = categoryId
        /\ t[b].month = month
        /\ t[b].year = year
        /\ t[b].currency = currency}

\* POST /api/budgets: INSERT INTO budgets (user_id, category_id, month, year,
\* limit_amount, currency) ... RETURNING.  The table after it and the answer:
\* 201 with the row, or 500 when the insert throws on the unique constraint.
PostBudget(t, id, userId, categoryId, month, year, limitAmount, currency) ==
    IF BudgetConflicts(t, userId, categoryId, month, year, currency) = {}
    THEN [budgets |-> [t EXCEPT ![id] =
                [live |-> TRUE, userId |-> userId, categoryId |-> categoryId,
                 month |-> month, year |-> year, limitAmount |-> ToDecimal2(limitAmount),
                 currency |-> currency]],
          status |-> 201, error |-> ""]
    ELSE [budgets |-> t, status |-> 500, error |-> "insert"]

\* POST /api/budgets of the older server: INSERT ... ON CONFLICT (user_id,
\* category_id, month, year) DO UPDATE SET limit_amount = $5.  No unique
\* index of the table has exactly these columns, so the store refuses the
\* statement and the handler answers 500.
PostBudgetV1(t, id, userId, categoryId, month, year, limitAmount, currency) ==
    [budgets |-> t, status |-> 500, error |-> "insert"]

\* POST /api/budgets.  The sequence keeps the id it gave out.
CreateBudget(userId, categoryId, month, year, limitAmount, currency) ==
    /\ nextBudgetId <= MaxBudgets
    /\ nextBudgetId' = nextBudgetId + 1
    /\ LET out == PostBudget(budgets, nextBudgetId, userId, categoryId, month, year,
                             limitAmount, currency)
       IN  /\ budgets' = out.budgets
           /\ Respond("createBudget", userId, nextBudgetId, out.status, out.error)
    /\ UNCHANGED <<ledgerVars, reportVars, extraVars>>

\* POST /api/budgets of the older server.
CreateBudgetV1(userId, categoryId, month, year, limitAmount) ==
    /\ nextBudgetId <= MaxBudgets
    /\ LET out == PostBudgetV1(budgets, nextBudgetId, userId, categoryId, month, year,
                               limitAmount, "BRL")
       IN  /\ budgets' = out.budgets
           /\ Respond("createBudgetV1", userId, Null, out.status, out.error)
    /\ UNCHANGED <<ledgerVars, reportVars, nextBudgetId, extraVars>>

\* DELETE /api/budgets/:id
DeleteBudget(userId, id) ==
    /\ budgets' = [b \in BudgetIds |->
            IF b = id /\ budgets[b].userId = userId THEN NoBudget ELSE budgets[b]]
    /\ Respond("deleteBudget", userId, id, 200, "")
    /\ UNCHANGED <<ledgerVars, reportVars, nextBudgetId, extraVars>>

\* -------------------------------------------------------------- dashboard
\* GET /api/metrics/dashboard of src/unnamed/part_001, in its two variants.
\* Sums and totals are counted in cents; the binary floating-point error of
\* parseFloat and += is left out.  A quotient is kept exact, as a fraction
\* in lowest terms with a positive denominator; denominator 0 stands for the
\* values a JavaScript division by zero gives: 1/0 Infinity, -1/0 -Infinity,
\* 0/0 NaN.

\* The tables the dashboard reads, as one value.
Books ==
    [accounts |-> accounts, accountInfo |-> accountInfo,
     transactions |-> transactions, txDates |-> txDates, valuations |-> valuations]

Sign(x) == IF x > 0 THEN 1 ELSE IF x < 0 THEN -1 ELSE 0

RECURSIVE Gcd(_, _)
Gcd(a, b) == IF b = 0 THEN a ELSE Gcd(b, a % b)

\* The number k.
Number(k) == [n |-> k, d |-> 1]

\* n / d
Divide(n, d) ==
    IF d = 0
    THEN [n |-> Sign(n), d |-> 0]
    ELSE LET g == Gcd(Abs(n), Abs(d)) IN
         [n |-> (Sign(d) * n) \div g, d |-> Abs(d) \div g]

\* q * k
Times(q, k) == Divide(q.n * k, q.d)

\* Number.prototype.toFixed(digits): the nearest multiple of 10^-digits,
\* counted in those multiples; "NaN" and "Infinity" for what is no number.
ToFixed(q, digits) ==
    IF q.d = 0
    THEN [finite |-> FALSE, scaled |-> q.n]
    ELSE LET n == Abs(q.n) * (10 ^ digits)
         IN  [finite |-> TRUE, scaled |-> Sign(q.n) * ((2 * n + q.d) \div (2 * q.d))]

\* String.prototype.toLowerCase on the type names the routes store.
ToLowerCase(type) ==
    CASE type = "INCOME" -> "income"
      [] type = "EXPENSE" -> "expense"
      [] OTHER -> type

RECURSIVE SumOf(_, _)
\* SUM(...) over the rows ids of the column f.
SumOf(f, ids) ==
    IF ids = {} THEN 0
    ELSE LET i == CHOOSE x \in ids : TRUE IN f[i] + SumOf(f, ids \ {i})

\* ... FROM accounts WHERE user_id = $1, the rows of one currency group.
AccountsOf(d, userId, currency) ==
    {a \in AccountIds :
        /\ d.accounts[a].live
        /\ d.accounts[a].userId = userId
        /\ d.accountInfo[a].currency = currency}

\* SELECT currency, SUM(balance) ... GROUP BY currency, the total of a group.
SumBalances(d, userId, currency) ==
    SumOf([a \in AccountIds |-> d.accounts[a].balance], AccountsOf(d, userId, currency))

\* ... FROM investments | assets | liabilities WHERE user_id = $1, the rows
\* of one currency group.
ValuationsOf(table, userId, currency) ==
    {i \in ValuationIds :
        table[i].live /\ table[i].userId = userId /\ table[i].currency = currency}

\* A dashboard that counts no valuation.
NoValues(table, userId, currency) == 0

\* SELECT currency, SUM(current_value | value | amount) ... GROUP BY currency
SumValues(table, userId, currency) ==
    SumOf([i \in ValuationIds |-> table[i].value], ValuationsOf(table, userId, currency))

\* byCurrency: a key for every currency one of the four results has a row of.
GroupedCurrencies(d, userId) ==
    {c \in Currencies :
        \/ AccountsOf(d, userId, c) # {}
        \/ ValuationsOf(d.valuations.investments, userId, c) # {}
        \/ ValuationsOf(d.valuations.assets, userId, c) # {}
        \/ ValuationsOf(d.valuations.liabilities, userId, c) # {}}

\* The keys with no default bucket added.
NoDefault(keys) == keys

\* if (Object.keys(byCurrency).length === 0) byCurrency['BRL'] = {...}
WithDefault(keys) == IF keys = {} THEN {"BRL"} ELSE keys

\* byCurrency[currency].assets
TotalAssets(d, userId, currency) ==
    SumBalances(d, userId, currency)
    + SumValues(d.valuations.investments, userId, currency)
    + SumValues(d.valuations.assets, userId, currency)

\* byCurrency[currency].liabilities
TotalLiabilities(d, userId, currency) ==
    SumValues(d.valuations.liabilities, userId, currency)

\* The ratio with no guard on the denominator.
DebtRatioUnguarded(assets, liabilities) == Times(Divide(liabilities, assets), 100)

\* data.assets > 0 ? (data.liabilities / data.assets) * 100 : 0
DebtRatio(assets, liabilities) ==
    IF assets > 0 THEN Times(Divide(liabilities, assets), 100) ELSE Number(0)

\* monthly.income > 0 ? ((balance) / monthly.income) * 100 : 0, then toFixed(2)
SavingsRate(income, expenses) ==
    ToFixed(IF income > 0 THEN Times(Divide(income - expenses, income), 100) ELSE Number(0), 2)

\* expenses > 0 ? (fund / expenses).toFixed(1) : '0.0'
EmergencyFundMonths(fund, expenses) ==
    IF expenses > 0 THEN ToFixed(Divide(fund, expenses), 1) ELSE [finite |-> TRUE, scaled |-> 0]

\* The rows of the newer monthly query for one currency and one type:
\* transactions t JOIN accounts a ON t.account_id = a.id WHERE t.user_id = $1
\* and the date in the current month, grouped by a.currency and t.type; the
\* rows are then told apart by the lower-cased type.
MonthlyRows(d, userId, currency, type) ==
    {t \in TxIds :
        /\ d.transactions[t].live
        /\ d.transactions[t].userId = userId
        /\ d.txDates[t] = "thisMonth"
        /\ d.transactions[t].accountId \in AccountIds
        /\ d.accounts[d.transactions[t].accountId].live
        /\ d.accountInfo[d.transactions[t].accountId].currency = currency
        /\ ToLowerCase(d.transactions[t].type) = type}

\* monthlyByCurrency[currency].income and .expenses
Monthly(d, userId, currency, type) ==
    SumOf([t \in TxIds |-> d.transactions[t].amount], MonthlyRows(d, userId, currency, type))

\* ... FROM accounts WHERE user_id = $1 AND is_emergency_fund = true GROUP
\* BY currency; emergencyFundByCurrency[currency] || 0
EmergencyFund(d, userId, currency) ==
    SumOf([a \in AccountIds |-> d.accounts[a].balance],
          {a \in AccountsOf(d, userId, currency) : d.accountInfo[a].isEmergencyFund})

\* A currency the response has no key for.
NoBucket ==
    [present |-> FALSE, totalAssets |-> 0, totalLiabilities |-> 0, netWorth |-> 0,
     debtRatio |-> Number(0),
     monthly |-> [income |-> 0, expenses |-> 0, balance |-> 0,
                  savingsRate |-> [finite |-> TRUE, scaled |-> 0]],
     emergencyFundMonths |-> [finite |-> TRUE, scaled |-> 0], emergencyFundValue |-> 0]

\* metrics[currency] of the newer variant.
Bucket(d, userId, currency) ==
    LET assets == TotalAssets(d, userId, currency)
        liabilities == TotalLiabilities(d, userId, currency)
        income == Monthly(d, userId, currency, "income")
        expenses == Monthly(d, userId, currency, "expense")
    IN  [present |-> TRUE,
         totalAssets |-> assets,
         totalLiabilities |-> liabilities,
         netWorth |-> assets - liabilities,
         debtRatio |-> DebtRatio(assets, liabilities),
         monthly |-> [income |-> income, expenses |-> expenses,
                      balance |-> income - expenses,
                      savingsRate |-> SavingsRate(income, expenses)],
         emergencyFundMonths |-> EmergencyFundMonths(EmergencyFund(d, userId, currency), expenses),
         emergencyFundValue |-> EmergencyFund(d, userId, currency)]

\* res.json(metrics) of the newer variant.
DashboardMetrics(d, userId) ==
    [op |-> "dashboard", userId |-> userId,
     byCurrency |->
        [c \in Currencies |->
            IF c \in WithDefault(GroupedCurrencies(d, userId))
            THEN Bucket(d, userId, c) ELSE NoBucket]]

\* The rows of the older monthly query for one type: the user's transactions
\* of the current month, grouped by type alone, with no account joined.  The
\* type names stored here leave one group for each lower-cased name, the one
\* that find(...) returns.
MonthlyRowsV1(d, userId, type) ==
    {t \in TxIds :
        /\ d.transactions[t].live
        /\ d.transactions[t].userId = userId
        /\ d.txDates[t] = "thisMonth"
        /\ ToLowerCase(d.transactions[t].type) = type}

\* income and expenses of the older variant: find(...)?.total || 0
MonthlyV1(d, userId, type) ==
    SumOf([t \in TxIds |-> d.transactions[t].amount], MonthlyRowsV1(d, userId, type))

\* metrics[currency] of the older variant.
BucketV1(d, userId, currency) ==
    LET assets == TotalAssets(d, userId, currency)
        liabilities == TotalLiabilities(d, userId, currency)
    IN  [present |-> TRUE,
         totalAssets |-> assets,
         totalLiabilities |-> liabilities,
         netWorth |-> assets - liabilities,
         debtRatio |-> DebtRatio(assets, liabilities)]

NoBucketV1 ==
    [present |-> FALSE, totalAssets |-> 0, totalLiabilities |-> 0, netWorth |-> 0,
     debtRatio |-> Number(0)]

\* res.json({byCurrency, monthly, emergencyFund}) of the older variant.  The
\* reserve is the total of the BRL accounts, flagged or not.
DashboardMetricsV1(d, userId) ==
    LET income == MonthlyV1(d, userId, "income")
        expenses == MonthlyV1(d, userId, "expense")
        brlAccounts == SumBalances(d, userId, "BRL")
    IN  [op |-> "dashboardV1", userId |-> userId,
         byCurrency |->
            [c \in Currencies |->
                IF c \in WithDefault(GroupedCurrencies(d, userId))
                THEN BucketV1(d, userId, c) ELSE NoBucketV1],
         monthly |-> [income |-> income, expenses |-> expenses,
                      balance |-> income - expenses,
                      savingsRate |-> SavingsRate(income, expenses)],
         emergencyFund |-> [months |-> EmergencyFundMonths(brlAccounts, expenses),
                            amount |-> brlAccounts]]

\* A handler that empties the accounts it has read.
AccountsCleared(d) == [d EXCEPT !.accounts = [a \in AccountIds |-> NoAccount]]

\* The tables after the dashboard's statements, every one a SELECT.
AfterQueries(d) == d

\* A write's response replaces the dashboard's.
NoDashboard == metrics' = NoMetrics /\ served' = 0

\* POST /api/accounts of src/unnamed/part_001
PostAccount(userId, currency, balance, isEmergencyFund) ==
    /\ CreateAccount(userId, balance)
    /\ accountInfo' = [accountInfo EXCEPT ![nextAccountId] =
            [currency |-> currency, isEmergencyFund |-> isEmergencyFund]]
    /\ NoDashboard
    /\ UNCHANGED <<budgetVars, txDates, valuations, extraVars>>

\* POST /api/transactions of src/unnamed/part_001, with the date of the body.
PostDatedTransaction(userId, accountId, type, amount, date) ==
    /\ CreateTransaction(userId, accountId, type, amount)
    /\ txDates' = IF AccountExists(Store, accountId)
                  THEN [txDates EXCEPT ![nextTxId] = date] ELSE txDates
    /\ NoDashboard
    /\ UNCHANGED <<budgetVars, accountInfo, valuations, extraVars>>

\* The id a table's sequence gives next: no route of the model deletes a
\* valuation.
NextValuationId(table) == Cardinality({i \in ValuationIds : table[i].live}) + 1

\* INSERT INTO investments | assets | liabilities (user_id, ..., currency)
InsertValuation(table, userId, currency, value) ==
    [table EXCEPT ![NextValuationId(table)] =
        [live |-> TRUE, userId |-> userId, currency |-> currency,
         value |-> ToDecimal2(value)]]

\* POST /api/investments: current_value is currentValue || amount.
CreateInvestment(userId, currency, currentValue) ==
    /\ NextValuationId(valuations.investments) <= MaxValuations
    /\ valuations' = [valuations EXCEPT
            !.investments = InsertValuation(@, userId, currency, currentValue)]
    /\ Respond("createInvestment", userId, NextValuationId(valuations.investments), 200, "")
    /\ NoDashboard
    /\ UNCHANGED <<ledgerVars, budgetVars, accountInfo, txDates, extraVars>>

\* POST /api/assets
CreateAsset(userId, currency, value) ==
    /\ NextValuationId(valuations.assets) <= MaxValuations
    /\ valuations' = [valuations EXCEPT !.assets = InsertValuation(@, userId, currency, value)]
    /\ Respond("createAsset", userId, NextValuationId(valuations.assets), 201, "")
    /\ NoDashboard
    /\ UNCHANGED <<ledgerVars, budgetVars, accountInfo, txDates, extraVars>>

\* POST /api/liabilities
CreateLiability(userId, currency, amount) ==
    /\ NextValuationId(valuations.liabilities) <= MaxValuations
    /\ valuations' = [valuations EXCEPT
            !.liabilities = InsertValuation(@, userId, currency, amount)]
    /\ Respond("createLiability", userId, NextValuationId(valuations.liabilities), 201, "")
    /\ NoDashboard
    /\ UNCHANGED <<ledgerVars, budgetVars, accountInfo, txDates, extraVars>>

\* The model follows equal requests up to MaxServed in a row.
Unserved(op, userId) == served < MaxServed \/ metrics.op # op \/ metrics.userId # userId

\* What a dashboard request leaves behind: the tables as its statements
\* leave them, the response, and the count of equal requests answered in a
\* row.
Answer(body) ==
    /\ LET after == AfterQueries(Books) IN
        /\ accounts' = after.accounts
        /\ accountInfo' = after.accountInfo
        /\ transactions' = after.transactions
        /\ txDates' = after.txDates
        /\ valuations' = after.valuations
    /\ metrics' = body
    /\ served' = IF metrics.op = body.op /\ metrics.userId = body.userId THEN served + 1 ELSE 1
    /\ Respond(body.op, body.userId, Null, 200, "")
    /\ UNCHANGED <<exchanges, nextAccountId, nextTxId, nextExId, conn, budgetVars, extraVars>>

\* GET /api/metrics/dashboard, the newer variant.
Dashboard(userId) ==
    /\ Unserved("dashboard", userId)
    /\ Answer(DashboardMetrics(Books, userId))

\* GET /api/metrics/dashboard, the older variant.
DashboardV1(userId) ==
    /\ Unserved("dashboardV1", userId)
    /\ Answer(DashboardMetricsV1(Books, userId))

\* ------------------------------------------- categories, income sources
\* The routes of src/server.js over categories and income_sources, and the
\* two columns of transactions that refer to them.  The tables of
\* src/unnamed/part_000 declare both references ON DELETE SET NULL; the SQL
\* script at the end of src/server.js declares them with no ON DELETE
\* clause, which refuses the delete of a row that is referred to.

\* REFERENCES categories(id) | income_sources(id): null, or a stored row of
\* any user.
LabelExists(table, id) == id = Null \/ (id \in LabelIds /\ table[id].live)

\* DELETE FROM categories | income_sources WHERE id = $1 AND user_id = $2:
\* the rows it deletes.
LabelsDeleted(table, id, userId) ==
    {k \in LabelIds : k = id /\ table[k].live /\ table[k].userId = userId}

\* The transactions whose column refers to one of the rows.
Referring(txs, refs, column, ids) ==
    {t \in TxIds : txs[t].live /\ refs[t][column] \in ids}

\* ON DELETE SET NULL on the column.
SetNull(txs, refs, column, ids) ==
    [t \in TxIds |->
        IF t \in Referring(txs, refs, column, ids)
        THEN [refs[t] EXCEPT ![column] = Null] ELSE refs[t]]

\* budgets.category_id REFERENCES categories(id) ON DELETE CASCADE
BudgetsCascade(t, ids) ==
    [b \in BudgetIds |-> IF t[b].live /\ t[b].categoryId \in ids THEN NoBudget ELSE t[b]]

\* POST /api/categories
CreateCategory(userId) ==
    /\ nextLabelIds.categories <= MaxLabels
    /\ categories' = [categories EXCEPT ![nextLabelIds.categories] =
            [live |-> TRUE, userId |-> userId]]
    /\ nextLabelIds' = [nextLabelIds EXCEPT !.categories = @ + 1]
    /\ Respond("createCategory", userId, nextLabelIds.categories, 200, "")
    /\ UNCHANGED <<authVars, wireVars, resetVars>>
    /\ UNCHANGED <<ledgerVars, budgetVars, reportVars, incomeSources, txRefs>>

\* POST /api/income-sources
CreateIncomeSource(userId) ==
    /\ nextLabelIds.incomeSources <= MaxLabels
    /\ incomeSources' = [incomeSources EXCEPT ![nextLabelIds.incomeSources] =
            [live |-> TRUE, userId |-> userId]]
    /\ nextLabelIds' = [nextLabelIds EXCEPT !.incomeSources = @ + 1]
    /\ Respond("createIncomeSource", userId, nextLabelIds.incomeSources, 200, "")
    /\ UNCHANGED <<authVars, wireVars, resetVars>>
    /\ UNCHANGED <<ledgerVars, budgetVars, reportVars, categories, txRefs>>

\* POST /api/transactions with the categoryId and incomeSourceId of the
\* body: the insert throws on an id that names no stored row.
PostLabelledTransaction(userId, accountId, type, amount, categoryId, incomeSourceId) ==
    /\ InWindow
    /\ nextTxId <= MaxTxs
    /\ nextTxId' = nextTxId + 1
    /\ LET out == IF /\ LabelExists(categories, categoryId)
                     /\ LabelExists(incomeSources, incomeSourceId)
                  THEN PostTransaction(Store, nextTxId, userId, accountId, type, amount)
                  ELSE [store |-> Store, status |-> 500, error |-> "insert"]
       IN  /\ Commit(out.store)
           /\ Respond("createTransaction", userId, nextTxId, out.status, out.error)
           /\ txRefs' = IF out.status = 200
                        THEN [txRefs EXCEPT ![nextTxId] =
                                [categoryId |-> categoryId, incomeSourceId |-> incomeSourceId]]
                        ELSE txRefs
    /\ UNCHANGED <<authVars, wireVars, resetVars>>
    /\ UNCHANGED <<nextAccountId, nextExId, conn, budgetVars, reportVars,
                   categories, incomeSources, nextLabelIds>>

\* DELETE /api/categories/:id on the tables of src/unnamed/part_000.
DeleteCategory(userId, id) ==
    /\ LET gone == LabelsDeleted(categories, id, userId) IN
        /\ categories' = [k \in LabelIds |-> IF k \in gone THEN NoLabel ELSE categories[k]]
        /\ txRefs' = SetNull(transactions, txRefs, "categoryId", gone)
        /\ budgets' = BudgetsCascade(budgets, gone)
    /\ Respond("deleteCategory", userId, id, 200, "")
    /\ UNCHANGED <<authVars, wireVars, resetVars>>
    /\ UNCHANGED <<ledgerVars, nextBudgetId, reportVars, incomeSources, nextLabelIds>>

\* DELETE /api/categories/:id on the tables of the SQL script: the store
\* refuses the delete while a transaction refers to the row, and its budgets
\* hold no reference to a category.
DeleteCategoryScript(userId, id) ==
    /\ LET gone == LabelsDeleted(categories, id, userId) IN
        IF Referring(transactions, txRefs, "categoryId", gone) = {}
        THEN /\ categories' = [k \in LabelIds |-> IF k \in gone THEN NoLabel ELSE categories[k]]
             /\ Respond("deleteCategoryScript", userId, id, 200, "")
        ELSE /\ UNCHANGED categories
             /\ Respond("deleteCategoryScript", userId, id, 500, "delete")
    /\ UNCHANGED <<authVars, wireVars, resetVars>>
    /\ UNCHANGED <<ledgerVars, budgetVars, reportVars, incomeSources, txRefs, nextLabelIds>>

\* DELETE /api/income-sources/:id on the tables of src/unnamed/part_000.
DeleteIncomeSource(userId, id) ==
    /\ LET gone == LabelsDeleted(incomeSources, id, userId) IN
        /\ incomeSources' =
                [k \in LabelIds |-> IF k \in gone THEN NoLabel ELSE incomeSources[k]]
        /\ txRefs' = SetNull(transactions, txRefs, "incomeSourceId", gone)
    /\ Respond("deleteIncomeSource", userId, id, 200, "")
    /\ UNCHANGED <<authVars, wireVars, resetVars>>
    /\ UNCHANGED <<ledgerVars, budgetVars, reportVars, categories, nextLabelIds>>

\* DELETE /api/income-sources/:id on the tables of the SQL script.
DeleteIncomeSourceScript(userId, id) ==
    /\ LET gone == LabelsDeleted(incomeSources, id, userId) IN
        IF Referring(transactions, txRefs, "incomeSourceId", gone) = {}
        THEN /\ incomeSources' =
                    [k \in LabelIds |-> IF k \in gone THEN NoLabel ELSE incomeSources[k]]
             /\ Respond("deleteIncomeSourceScript", userId, id, 200, "")
        ELSE /\ UNCHANGED incomeSources
             /\ Respond("deleteIncomeSourceScript", userId, id, 500, "delete")
    /\ UNCHANGED <<authVars, wireVars, resetVars>>
    /\ UNCHANGED <<ledgerVars, budgetVars, reportVars, categories, txRefs, nextLabelIds>>

\* -------------------------------------------------------- specification
\* The store after createTables: no rows, the sequences at their start.
\* No budget, valuation or dashboard response yet; the columns of the
\* accounts and transactions rows to come hold their defaults.
NoBudgetsNoReports ==
    /\ budgets = [b \in BudgetIds |-> NoBudget]
    /\ nextBudgetId = 1
    /\ accountInfo = [a \in AccountIds |-> NoAccountInfo]
    /\ txDates = [t \in TxIds |-> "thisMonth"]
    /\ valuations =
            [investments |-> [i \in ValuationIds |-> NoValuation],
             assets |-> [i \in ValuationIds |-> NoValuation],
             liabilities |-> [i \in ValuationIds |-> NoValuation]]
    /\ metrics = NoMetrics
    /\ served = 0
    /\ categories = [k \in LabelIds |-> NoLabel]
    /\ incomeSources = [k \in LabelIds |-> NoLabel]
    /\ txRefs = [t \in TxIds |-> NoRefs]
    /\ nextLabelIds = [categories |-> 1, incomeSources |-> 1]
    /\ authorization = Null
    /\ wire = [c \in Clients |-> NoWire]
    /\ users = [u \in UserIds |->
            [password |-> HashPassword(0), resetToken |-> Null, resetTokenExpires |-> Null]]
    /\ now = 0
    /\ nextResetToken = 1
    /\ resetting = [c \in Clients |-> NoReset]

Init ==
    /\ accounts = [a \in AccountIds |-> NoAccount]
    /\ transactions = [t \in TxIds |-> NoTransaction]
    /\ exchanges = [e \in ExchangeRowIds |-> NoExchange]
    /\ nextAccountId = 1
    /\ nextTxId = 1
    /\ nextExId = 1
    /\ res = NoResponse
    /\ conn = [c \in Clients |-> IdleConnection]
    /\ NoBudgetsNoReports

\* The runs explored keep to one kind of record: transaction requests are
\* taken while no exchange has been posted, exchange requests while no
\* transaction has.
TransactionRequests ==
    /\ nextExId = 1
    /\ UNCHANGED <<budgetVars, reportVars, extraVars>>
    /\ \/ \E u \in UserIds, a \in AccountRefs, t \in Types, m \in Amounts :
            CreateTransaction(u, a, t, m)
       \/ \E u \in UserIds, i \in TxIds, a \in AccountRefs, t \in Types, m \in Amounts :
            UpdateTransaction(u, i, a, t, m)
       \/ \E u \in UserIds, i \in TxIds : DeleteTransaction(u, i)

ExchangeRequests ==
    /\ nextTxId = 1
    /\ UNCHANGED <<budgetVars, reportVars, extraVars>>
    /\ \/ \E u \in UserIds, f \in AccountIds, t \in AccountIds,
             m \in ExchangeAmounts, n \in ExchangeAmounts :
            CreateExchange(u, f, t, m, n)
       \/ \E u \in UserIds, i \in ExchangeIds, f \in AccountIds, t \in AccountIds,
             m \in ExchangeAmounts, n \in ExchangeAmounts :
            UpdateExchange(u, i, f, t, m, n)
       \/ \E u \in UserIds, i \in ExchangeIds : DeleteExchange(u, i)

AccountRequests ==
    /\ UNCHANGED <<budgetVars, reportVars, extraVars>>
    /\ \/ \E u \in UserIds, b \in OpeningBalances : CreateAccount(u, b)
       \/ \E u \in UserIds, a \in AccountIds : DeleteAccount(u, a)

Next == AccountRequests \/ TransactionRequests \/ ExchangeRequests

\* Requests served one at a time, each handler run to its end.
Spec == Init /\ [][Next]_vars

\* The users, accounts and amounts of the requests served side by side.
UnitUserIds == {1}

UnitAmounts == {2, 2 * MaxAmount}

UnitAccountIds == {1}

\* An account id that names no stored account.
MissingAccountId == MaxAccounts + 1

\* A store the requests of Spec reach: user 1 has opened accounts 1 and 2
\* with nothing in them.
InitUnits ==
    /\ accounts = [a \in AccountIds |->
            IF a <= 2 THEN [live |-> TRUE, userId |-> 1, balance |-> 0] ELSE NoAccount]
    /\ transactions = [t \in TxIds |-> NoTransaction]
    /\ exchanges = [e \in ExchangeRowIds |-> NoExchange]
    /\ nextAccountId = 3
    /\ nextTxId = 1
    /\ nextExId = 1
    /\ res = NoResponse
    /\ conn = [c \in Clients |-> IdleConnection]
    /\ NoBudgetsNoReports

BeginTransactionUnit(c) ==
    /\ nextExId = 1
    /\ \A o \in Clients : conn[o].op \notin {"createExchange", "updateExchange", "deleteExchange"}
    /\ \/ \E u \in UnitUserIds, a \in UnitAccountIds, t \in Types, m \in UnitAmounts :
            Begin(c, "createTransaction", u, Null, a, t, m, Null, 0)
       \/ \E u \in UnitUserIds, i \in TxIds, a \in UnitAccountIds \cup {MissingAccountId},
             t \in Types, m \in UnitAmounts :
            Begin(c, "updateTransaction", u, i, a, t, m, Null, 0)
       \/ \E u \in UnitUserIds, i \in TxIds :
            Begin(c, "deleteTransaction", u, i, Null, "", 0, Null, 0)

BeginExchangeUnit(c) ==
    /\ nextTxId = 1
    /\ \A o \in Clients :
            conn[o].op \notin {"createTransaction", "updateTransaction", "deleteTransaction"}
    /\ \/ \E u \in UnitUserIds, f \in UnitAccountIds, t \in AccountIds \ UnitAccountIds,
             m \in UnitAmounts :
            Begin(c, "createExchange", u, Null, f, "", m, t, m)
       \/ \E u \in UnitUserIds, m \in UnitAmounts :
            Begin(c, "createExchange", u, Null, MissingAccountId, "", m, MissingAccountId, m)
       \/ \E u \in UnitUserIds, i \in ExchangeIds, f \in UnitAccountIds,
             t \in AccountIds \ UnitAccountIds, m \in UnitAmounts :
            Begin(c, "updateExchange", u, i, f, "", m, t, m)
       \/ \E u \in UnitUserIds, i \in ExchangeIds :
            Begin(c, "deleteExchange", u, i, Null, "", 0, Null, 0)

NextUnits ==
    \E c \in Clients :
        \/ BeginTransactionUnit(c)
        \/ BeginExchangeUnit(c)
        \/ UnitSelect(c)
        \/ UnitInsert(c)
        \/ UnitAdjust(c)
        \/ UnitMutate(c)
        \/ UnitCommit(c)
        \/ UnitFail(c)

\* The units of concurrent requests, their statements interleaved.
SpecUnits == InitUnits /\ [][NextUnits]_vars

\* Units on different records that adjust the same account: the first
\* connection of the pool serves requests about the transaction of account
\* 1, the second one requests about the exchange out of account 1.
BeginTransactionOfAccount(c) ==
    /\ c = 1
    /\ \/ \E u \in UnitUserIds, a \in UnitAccountIds, t \in Types, m \in UnitAmounts :
            Begin(c, "createTransaction", u, Null, a, t, m, Null, 0)
       \/ \E u \in UnitUserIds, i \in TxIds, a \in UnitAccountIds, t \in Types,
             m \in UnitAmounts :
            Begin(c, "updateTransaction", u, i, a, t, m, Null, 0)
       \/ \E u \in UnitUserIds, i \in TxIds :
            Begin(c, "deleteTransaction", u, i, Null, "", 0, Null, 0)

BeginExchangeOfAccount(c) ==
    /\ c # 1
    /\ \/ \E u \in UnitUserIds, f \in UnitAccountIds, t \in AccountIds \ UnitAccountIds,
             m \in UnitAmounts :
            Begin(c, "createExchange", u, Null, f, "", m, t, m)
       \/ \E u \in UnitUserIds, i \in ExchangeIds, f \in UnitAccountIds,
             t \in AccountIds \ UnitAccountIds, m \in UnitAmounts :
            Begin(c, "updateExchange", u, i, f, "", m, t, m)
       \/ \E u \in UnitUserIds, i \in ExchangeIds :
            Begin(c, "deleteExchange", u, i, Null, "", 0, Null, 0)

NextShared ==
    \E c \in Clients :
        \/ BeginTransactionOfAccount(c)
        \/ BeginExchangeOfAccount(c)
        \/ UnitSelect(c)
        \/ UnitInsert(c)
        \/ UnitAdjust(c)
        \/ UnitMutate(c)
        \/ UnitCommit(c)
        \/ UnitFail(c)

SpecShared == InitUnits /\ [][NextShared]_vars

\* Exchange units that take the same two accounts in either order.
BeginOpposedExchange(c) ==
    \E u \in UnitUserIds, f \in AccountIds, t \in AccountIds, m \in UnitAmounts :
        /\ f # t
        /\ BeginWithin(MaxOpposed, c, "createExchange", u, Null, f, "", m, t, m)

NextOpposed ==
    \E c \in Clients :
        \/ BeginOpposedExchange(c)
        \/ UnitInsert(c)
        \/ UnitAdjust(c)
        \/ UnitCommit(c)
        \/ UnitDeadlock(c)
        \/ UnitFail(c)

\* Every awaited statement that the store can run is run, and a unit among
\* units that wait for each other is failed by the store; no request has
\* to arrive and no statement has to fail otherwise.
FairOpposed ==
    \A c \in Clients :
        /\ WF_vars(UnitInsert(c))
        /\ WF_vars(UnitAdjust(c))
        /\ WF_vars(UnitCommit(c))
        /\ WF_vars(UnitDeadlock(c))

SpecOpposed == InitUnits /\ [][NextOpposed]_vars /\ FairOpposed

TsTypes == {"INCOME", "EXPENSE"}

TsAmounts == {2}

TsRequests ==
    /\ nextExId = 1
    /\ UNCHANGED <<budgetVars, reportVars, extraVars>>
    /\ \E u \in UserIds, a \in AccountIds, t \in TsTypes, m \in TsAmounts :
            TsCreateTransaction(u, a, t, m)

NextTs == Next \/ TsRequests

\* The requests of Spec together with the route of server.ts.
SpecTs == Init /\ [][NextTs]_vars

\* What the budget requests carry: no category or category 1, a month of
\* year 2026, a limit in half-cents.
BudgetCategoryIds == {Null, 1}

BudgetMonths == {1, 2}

BudgetYears == {2026}

BudgetLimits == {1, 2 * MaxAmount}

BudgetRequests ==
    \/ \E u \in UserIds, k \in BudgetCategoryIds, m \in BudgetMonths, y \in BudgetYears,
          l \in BudgetLimits, c \in Currencies :
            CreateBudget(u, k, m, y, l, c)
    \/ \E u \in UserIds, k \in BudgetCategoryIds, m \in BudgetMonths, y \in BudgetYears,
          l \in BudgetLimits :
            CreateBudgetV1(u, k, m, y, l)
    \/ \E u \in UserIds, i \in BudgetIds : DeleteBudget(u, i)

\* The budget requests, one at a time.
SpecBudgets == Init /\ [][BudgetRequests]_vars

\* The types the routes store: server.js writes them in lower case,
\* server.ts in upper case.
MetricsTypes == {"income", "EXPENSE"}

\* 0.01
MetricsAmounts == {2}

\* The accounts opened, as <<user, balance, isEmergencyFund>>: the user of
\* the dashboard opens empty accounts and accounts with 0.01, flagged as the
\* emergency fund or not; the other user opens flagged accounts with 0.01.
MetricsOpenings ==
    {<<1, 0, FALSE>>, <<1, 2, FALSE>>, <<1, 2, TRUE>>, <<2, 2, TRUE>>}

\* The user whose dashboard is requested; the other one only writes.
DashboardUserIds == {1}

\* The other user's valuations are investments.
ValuationUserIds == {1}

\* Rows of the table.
Rows(table) == {i \in ValuationIds : table[i].live}

\* A run writes the tables in one order: accounts, investments, assets,
\* liabilities, transactions.
MetricsRequests ==
    \/ /\ Rows(valuations.investments) = {}
       /\ Rows(valuations.assets) = {}
       /\ Rows(valuations.liabilities) = {}
       /\ nextTxId = 1
       /\ \E c \in Currencies, o \in MetricsOpenings : PostAccount(o[1], c, o[2], o[3])
    \/ /\ Rows(valuations.assets) = {}
       /\ Rows(valuations.liabilities) = {}
       /\ nextTxId = 1
       /\ \E u \in UserIds, c \in Currencies, v \in MetricsAmounts : CreateInvestment(u, c, v)
    \/ /\ Rows(valuations.liabilities) = {}
       /\ nextTxId = 1
       /\ \E u \in ValuationUserIds, c \in Currencies, v \in MetricsAmounts :
            CreateAsset(u, c, v)
    \/ /\ nextTxId = 1
       /\ \E u \in ValuationUserIds, c \in Currencies, v \in MetricsAmounts :
            CreateLiability(u, c, v)
    \/ \E u \in UserIds, a \in AccountIds, type \in MetricsTypes, m \in MetricsAmounts,
          date \in Dates :
            PostDatedTransaction(u, a, type, m, date)
    \/ \E u \in DashboardUserIds : Dashboard(u)
    \/ \E u \in DashboardUserIds : DashboardV1(u)

\* The dashboard and the writes it reads, one request at a time.
SpecMetrics == Init /\ [][MetricsRequests]_vars

\* The category and income-source requests with the accounts and the
\* transactions that refer to them, one request at a time.
LabelRequests ==
    \/ \E u \in UserIds, b \in OpeningBalances :
            CreateAccount(u, b) /\ UNCHANGED <<budgetVars, reportVars, extraVars>>
    \/ \E u \in UserIds : CreateCategory(u)
    \/ \E u \in UserIds : CreateIncomeSource(u)
    \/ \E u \in UserIds, a \in AccountRefs, type \in Types, m \in MetricsAmounts,
          k \in LabelRefs, i \in LabelRefs :
            PostLabelledTransaction(u, a, type, m, k, i)
    \/ \E u \in UserIds, k \in LabelIds : DeleteCategory(u, k)
    \/ \E u \in UserIds, k \in LabelIds : DeleteCategoryScript(u, k)
    \/ \E u \in UserIds, k \in LabelIds : DeleteIncomeSource(u, k)
    \/ \E u \in UserIds, k \in LabelIds : DeleteIncomeSourceScript(u, k)

SpecLabels == Init /\ [][LabelRequests]_vars

\* The routes behind authMiddleware, each request with its Authorization
\* header.
AuthCreateAccount(token, balance) ==
    Authenticated(token, "createAccount", LAMBDA u : CreateAccount(u, balance))

AuthDeleteAccount(token, id) ==
    Authenticated(token, "deleteAccount", LAMBDA u : DeleteAccount(u, id))

AuthCreateTransaction(token, accountId, type, amount) ==
    Authenticated(token, "createTransaction",
                  LAMBDA u : CreateTransaction(u, accountId, type, amount))

AuthUpdateTransaction(token, id, accountId, type, amount) ==
    Authenticated(token, "updateTransaction",
                  LAMBDA u : UpdateTransaction(u, id, accountId, type, amount))

AuthDeleteTransaction(token, id) ==
    Authenticated(token, "deleteTransaction", LAMBDA u : DeleteTransaction(u, id))

\* The requests with a header, to the routes above and to the two routes of
\* server.ts.
AuthRequests ==
    \/ \E token \in Authorizations, b \in OpeningBalances : AuthCreateAccount(token, b)
    \/ \E token \in Authorizations, a \in AccountIds : AuthDeleteAccount(token, a)
    \/ \E token \in Authorizations, a \in AccountRefs, t \in Types, m \in Amounts :
            AuthCreateTransaction(token, a, t, m)
    \/ \E token \in Authorizations, i \in TxIds, a \in AccountRefs, t \in Types,
          m \in Amounts :
            AuthUpdateTransaction(token, i, a, t, m)
    \/ \E token \in Authorizations, i \in TxIds : AuthDeleteTransaction(token, i)
    \/ \E token \in Authorizations : TsGetAccounts(token)
    \/ \E token \in Authorizations, a \in AccountRefs, t \in TsTypes, m \in TsAmounts :
            TsPostTransaction(token, a, t, m)

SpecAuth == Init /\ [][AuthRequests]_vars

\* The password-reset requests of the registered users, two at a time.
ResetRequests ==
    \/ \E u \in UserIds \cup {Null} : ForgotPassword(u)
    \/ \E c \in Clients, token \in ResetTokens, p \in NewPasswords : ResetSelect(c, token, p)
    \/ \E c \in Clients : ResetUpdate(c)
    \/ Tick

SpecReset == Init /\ [][ResetRequests]_vars

\* ------------------------------------------------------------ properties
\* The signed delta of a stored transaction: +amount for income, -amount
\* otherwise.
SignedAmount(r) == IF r.type = "income" THEN r.amount ELSE -r.amount

\* What stored transaction r contributes to account a.
TxDelta(r, a) == IF r.live /\ r.accountId = a THEN SignedAmount(r) ELSE 0

\* What the legs of stored exchange x contribute to account a.
ExDelta(x, a) ==
    (IF x.live /\ x.fromAccountId = a THEN -x.fromAmount ELSE 0)
        + (IF x.live /\ x.toAccountId = a THEN x.toAmount ELSE 0)

RECURSIVE SumTx(_, _, _)
SumTx(d, ids, a) ==
    IF ids = {} THEN 0
    ELSE LET i == CHOOSE t \in ids : TRUE
         IN  TxDelta(d.transactions[i], a) + SumTx(d, ids \ {i}, a)

RECURSIVE SumEx(_, _, _)
SumEx(d, ids, a) ==
    IF ids = {} THEN 0
    ELSE LET i == CHOOSE e \in ids : TRUE
         IN  ExDelta(d.exchanges[i], a) + SumEx(d, ids \ {i}, a)

\* The sum of the deltas of the records stored for account a.
LedgerSum(d, a) == SumTx(d, TxIds, a) + SumEx(d, ExchangeRowIds, a)

\* The part of a's balance that the stored records do not account for (its
\* opening balance, while the ledger is kept).
Drift(d, a) == d.accounts[a].balance - LedgerSum(d, a)

StoreAfter == [accounts |-> accounts', transactions |-> transactions', exchanges |-> exchanges']

LedgerOps ==
    {"createTransaction", "updateTransaction", "deleteTransaction",
     "createExchange", "updateExchange", "deleteExchange"}

\* C1: a transaction or exchange create, update or delete request leaves
\* every account's balance equal to what it opened with plus the signed
\* deltas of the transactions and the exchange legs stored for it.
BalanceEqualsLedgerStep ==
    res'.op \in LedgerOps =>
        \A a \in AccountIds :
            accounts[a].live /\ accounts'[a].live => Drift(StoreAfter, a) = Drift(Store, a)
BalanceEqualsLedger == [][BalanceEqualsLedgerStep]_vars

\* C2: a unit that ends on a failed statement leaves every balance and the
\* stored transactions and exchanges as they were, holds nothing written, and
\* is answered 500 (404 when its fetch found no record).
FailedUnitUndoneStep ==
    \A c \in Clients :
        (/\ conn[c].pc # "idle"
         /\ conn'[c].pc = "idle"
         /\ ~(conn[c].pc = "commit" /\ res'.status = 200))
        => /\ UNCHANGED <<accounts, transactions, exchanges>>
           /\ conn'[c] = IdleConnection
           /\ res'.status = 500 \/ (conn[c].pc = "select" /\ res'.status = 404)
FailedUnitUndone == [][FailedUnitUndoneStep]_vars

\* C2 seen: an update failed at its record statement, after the old delta
\* had been taken back in the unit, and the record stands as it was.
FailedUnitUndoneSeen ==
    /\ res.op = "updateTransaction"
    /\ res.status = 500
    /\ res.error = "mutate"
    /\ transactions[res.id].live
    /\ accounts[transactions[res.id].accountId].balance = SignedAmount(transactions[res.id])

\* C3: an update of a transaction that commits while the record is stored
\* changes each balance by the stored record's delta less the delta of the
\* record it replaces, also when another update of the same record ran
\* beside it.
UpdateReversesOnceStep ==
    \A c \in Clients :
        (/\ conn[c].op = "updateTransaction"
         /\ conn[c].pc = "commit"
         /\ conn'[c].pc = "idle"
         /\ res'.status = 200
         /\ transactions[conn[c].id].live
         /\ transactions'[conn[c].id].live)
        => \A a \in AccountIds :
                accounts'[a].balance - accounts[a].balance =
                    TxDelta(transactions'[conn[c].id], a) - TxDelta(transactions[conn[c].id], a)
UpdateReversesOnce == [][UpdateReversesOnceStep]_vars

\* C4: a request of user U changes no balance of an account of another
\* user, and changes or deletes no transaction or exchange of another user.
OthersUntouchedStep ==
    LET u == res'.userId IN
    /\ \A a \in AccountIds :
            (accounts[a].live /\ accounts[a].userId # u)
            => accounts'[a].live /\ accounts'[a].balance = accounts[a].balance
    /\ \A t \in TxIds :
            (transactions[t].live /\ transactions[t].userId # u)
            => transactions'[t] = transactions[t]
    /\ \A e \in ExchangeIds :
            (exchanges[e].live /\ exchanges[e].userId # u) => exchanges'[e] = exchanges[e]
OthersUntouched == [][OthersUntouchedStep]_vars

\* C5: a transaction created on account A and then updated to account B,
\* both owned by the requester, leaves A's balance what it was before the
\* create and B's balance changed by the signed delta of the stored record.
UpdateMovesEffect ==
    nextTxId \in TxIds =>
        \A u \in UserIds, A \in AccountIds, B \in AccountIds,
           t1 \in Types, t2 \in Types, m1 \in Amounts, m2 \in Amounts :
            (/\ A # B
             /\ accounts[A].live /\ accounts[A].userId = u
             /\ accounts[B].live /\ accounts[B].userId = u)
            => LET created == CreateTransactionUnit(Store, nextTxId, u, A, t1, m1)
                   updated == UpdateTransactionUnit(created, nextTxId, u,
                                    created.transactions[nextTxId], B, t2, m2)
               IN  /\ updated.accounts[A].balance = accounts[A].balance
                   /\ updated.accounts[B].balance =
                        accounts[B].balance + SignedAmount(updated.transactions[nextTxId])

\* C6: an exchange between two accounts of the requester that is created,
\* possibly updated, and then deleted leaves every account's balance what it
\* was before the create, whatever the amounts.
ExchangeRoundTrip ==
    nextExId \in ExchangeIds =>
        \A u \in UserIds, f \in AccountIds, t \in AccountIds,
           m \in ExchangeAmounts, n \in ExchangeAmounts :
            (/\ f # t
             /\ accounts[f].live /\ accounts[f].userId = u
             /\ accounts[t].live /\ accounts[t].userId = u)
            => LET created == CreateExchangeUnit(Store, nextExId, u, f, t, m, n)
                   deleted == DeleteExchangeUnit(created, nextExId, u,
                                    created.exchanges[nextExId])
               IN  /\ deleted.accounts = accounts
                   /\ \A m2 \in ExchangeAmounts, n2 \in ExchangeAmounts :
                        LET updated == UpdateExchangeUnit(created, nextExId, u,
                                            created.exchanges[nextExId], t, f, m2, n2)
                        IN  DeleteExchangeUnit(updated, nextExId, u,
                                updated.exchanges[nextExId]).accounts = accounts

\* C7: an update or delete of a transaction or exchange whose id names no
\* stored record of the requester answers 404 and changes no balance and no
\* stored transaction or exchange.
MissingIsNotFoundStep ==
    LET r == res'
        ownsTx == r.id \in TxIds /\ transactions[r.id].live
                    /\ transactions[r.id].userId = r.userId
        ownsEx == r.id \in ExchangeIds /\ exchanges[r.id].live
                    /\ exchanges[r.id].userId = r.userId
    IN  (\/ r.op \in {"updateTransaction", "deleteTransaction"} /\ ~ownsTx
         \/ r.op \in {"updateExchange", "deleteExchange"} /\ ~ownsEx)
        => /\ r.status = 404
           /\ UNCHANGED <<accounts, transactions, exchanges>>
MissingIsNotFound == [][MissingIsNotFoundStep]_vars

\* C7 seen: an update of a stored transaction of another user was answered 404.
MissingIsNotFoundSeen ==
    /\ res.op = "updateTransaction"
    /\ res.status = 404
    /\ res.id \in TxIds
    /\ transactions[res.id].live
    /\ transactions[res.id].userId # res.userId

\* C8: a transaction create or update that succeeds changes the balance of
\* the account the stored record references by the record's signed delta,
\* and of no other account; the stored record references an account.
DeltaOnReferencedAccountStep ==
    (res'.op \in {"createTransaction", "updateTransaction"} /\ res'.status = 200)
    => /\ transactions'[res'.id].live
       /\ transactions'[res'.id].accountId \in AccountIds
       /\ \A a \in AccountIds :
            accounts'[a].balance - accounts[a].balance =
                TxDelta(transactions'[res'.id], a) - TxDelta(transactions[res'.id], a)
DeltaOnReferencedAccount == [][DeltaOnReferencedAccountStep]_vars

\* C9: no stored transaction has a negative amount.
AmountNeverNegative == \A t \in TxIds : transactions[t].live => transactions[t].amount >= 0

\* C10: after an account is deleted no stored transaction or exchange
\* references it, and each remaining account's balance still differs from the
\* sum of the deltas of its stored records by what it did before.
AccountDeleteKeepsLedgerStep ==
    (/\ res'.op = "deleteAccount"
     /\ res'.id \in AccountIds
     /\ accounts[res'.id].live
     /\ ~accounts'[res'.id].live)
    => /\ \A t \in TxIds : transactions'[t].live => transactions'[t].accountId # res'.id
       /\ \A e \in ExchangeIds :
            exchanges'[e].live =>
                exchanges'[e].fromAccountId # res'.id /\ exchanges'[e].toAccountId # res'.id
       /\ \A a \in AccountIds \ {res'.id} :
            accounts'[a].live => Drift(StoreAfter, a) = Drift(Store, a)
AccountDeleteKeepsLedger == [][AccountDeleteKeepsLedgerStep]_vars

\* The stored budgets of a key.
BudgetsOfKey(t, userId, categoryId, month, year, currency) ==
    {b \in BudgetIds :
        /\ t[b].live
        /\ t[b].userId = userId
        /\ t[b].categoryId = categoryId
        /\ t[b].month = month
        /\ t[b].year = year
        /\ t[b].currency = currency}

\* C11: a budget posted twice for the same user, category, month, year and
\* currency is accepted both times and leaves one stored budget of that key,
\* with the limit of the second request.
BudgetPostedTwice ==
    nextBudgetId + 1 \in BudgetIds =>
        \A u \in UserIds, k \in BudgetCategoryIds, m \in BudgetMonths, y \in BudgetYears,
           c \in Currencies, l1 \in BudgetLimits, l2 \in BudgetLimits :
            LET first == PostBudget(budgets, nextBudgetId, u, k, m, y, l1, c)
                second == PostBudget(first.budgets, nextBudgetId + 1, u, k, m, y, l2, c)
                firstV1 == PostBudgetV1(budgets, nextBudgetId, u, k, m, y, l1, c)
                secondV1 == PostBudgetV1(firstV1.budgets, nextBudgetId + 1, u, k, m, y, l2, c)
            IN  /\ first.status = 201 /\ second.status = 201
                /\ firstV1.status = 200 /\ secondV1.status = 200
                /\ \A out \in {second.budgets, secondV1.budgets} :
                    /\ Cardinality(BudgetsOfKey(out, u, k, m, y, c)) = 1
                    /\ \A b \in BudgetsOfKey(out, u, k, m, y, c) :
                            out[b].limitAmount = ToDecimal2(l2)

\* What a user can read back through the routes: the rows that carry the
\* user's id.
OwnState(d, userId) ==
    [accounts |-> {<<a, d.accounts[a]>> : a \in {i \in AccountIds :
                        d.accounts[i].live /\ d.accounts[i].userId = userId}},
     transactions |-> {<<t, d.transactions[t]>> : t \in {i \in TxIds :
                        d.transactions[i].live /\ d.transactions[i].userId = userId}},
     exchanges |-> {<<e, d.exchanges[e]>> : e \in {i \in ExchangeRowIds :
                        d.exchanges[i].live /\ d.exchanges[i].userId = userId}}]

\* Account ids that name no stored account, and those of other users.
AbsentAccountIds == {i \in AccountIds \cup {MissingAccountId} : ~AccountExists(Store, i)}

ForeignAccountIds(userId) ==
    {i \in AccountIds : accounts[i].live /\ accounts[i].userId # userId}

\* C12: a transaction or an exchange created against an account id that does
\* not exist and against the id of another user's account answer the same
\* status and leave the requester's own rows the same.
AbsentLikeForeign ==
    \A u \in UserIds, absent \in AbsentAccountIds :
        \A foreign \in ForeignAccountIds(u) :
            /\ nextTxId \in TxIds =>
                \A type \in Types, m \in Amounts :
                    LET onAbsent == PostTransaction(Store, nextTxId, u, absent, type, m)
                        onForeign == PostTransaction(Store, nextTxId, u, foreign, type, m)
                    IN  /\ onAbsent.status = onForeign.status
                        /\ OwnState(onAbsent.store, u) = OwnState(onForeign.store, u)
            /\ nextExId \in ExchangeIds =>
                \A t \in AccountRefs, m \in ExchangeAmounts :
                    LET onAbsent == PostExchange(Store, nextExId, u, absent, t, m, m)
                        onForeign == PostExchange(Store, nextExId, u, foreign, t, m, m)
                    IN  /\ onAbsent.status = onForeign.status
                        /\ OwnState(onAbsent.store, u) = OwnState(onForeign.store, u)

\* The sum of the balances of the user's accounts in a currency, of all of
\* them or of the ones flagged as the emergency fund.
BalancesIn(userId, currency, flaggedOnly) ==
    SumOf([a \in AccountIds |-> accounts[a].balance],
          {a \in AccountIds :
              /\ accounts[a].live
              /\ accounts[a].userId = userId
              /\ accountInfo[a].currency = currency
              /\ flaggedOnly => accountInfo[a].isEmergencyFund})

\* The sum of the values of the user's rows of a valuation table in a
\* currency.
ValuesIn(table, userId, currency) ==
    SumOf([i \in ValuationIds |-> table[i].value],
          {i \in ValuationIds :
              table[i].live /\ table[i].userId = userId /\ table[i].currency = currency})

\* The sum of the amounts of the user's current-month transactions of a type
\* whose account has the currency.
MonthIn(userId, currency, type) ==
    SumOf([t \in TxIds |-> transactions[t].amount],
          {t \in TxIds :
              /\ transactions[t].live
              /\ transactions[t].userId = userId
              /\ txDates[t] = "thisMonth"
              /\ ToLowerCase(transactions[t].type) = type
              /\ transactions[t].accountId \in AccountIds
              /\ accountInfo[transactions[t].accountId].currency = currency})

\* The last response is a dashboard; no write was answered since, so the
\* tables are the ones it was computed from.
DashboardAnswered == metrics.op \in {"dashboard", "dashboardV1"}

\* The currencies the last dashboard has a bucket of.
Buckets == {c \in Currencies : metrics.byCurrency[c].present}

\* The monthly figures, the emergency-fund months and the emergency-fund
\* balance the last dashboard gives for a bucket: the newer variant inside
\* the bucket, the older variant once for all of them.
MonthlyOf(c) == IF metrics.op = "dashboard" THEN metrics.byCurrency[c].monthly ELSE metrics.monthly

MonthsOf(c) ==
    IF metrics.op = "dashboard"
    THEN metrics.byCurrency[c].emergencyFundMonths ELSE metrics.emergencyFund.months

FundOf(c) ==
    IF metrics.op = "dashboard"
    THEN metrics.byCurrency[c].emergencyFundValue ELSE metrics.emergencyFund.amount

\* C13: in every bucket of a dashboard, totalAssets is the sum of the user's
\* account balances, investment current values and asset values in the
\* bucket's currency, totalLiabilities the sum of the user's liability
\* amounts in it, and netWorth is totalAssets minus totalLiabilities.
TotalsAreSums ==
    DashboardAnswered =>
        \A c \in Buckets :
            LET b == metrics.byCurrency[c] IN
            /\ b.totalAssets = BalancesIn(metrics.userId, c, FALSE)
                               + ValuesIn(valuations.investments, metrics.userId, c)
                               + ValuesIn(valuations.assets, metrics.userId, c)
            /\ b.totalLiabilities = ValuesIn(valuations.liabilities, metrics.userId, c)
            /\ b.netWorth = b.totalAssets - b.totalLiabilities

\* C13 happens: a bucket made of an account balance, an investment and an
\* asset, with a liability, while the other user has an investment too.
TotalsAreSumsSeen ==
    /\ DashboardAnswered
    /\ \E c \in Buckets :
        /\ metrics.byCurrency[c].totalAssets = 3
        /\ metrics.byCurrency[c].totalLiabilities = 1
        /\ BalancesIn(metrics.userId, c, FALSE) = 1
        /\ \E i \in ValuationIds : /\ valuations.investments[i].live
                                   /\ valuations.investments[i].userId = metrics.userId

\* C14: a dashboard never divides by zero: every ratio is a number, debtRatio
\* is 0 when totalAssets is 0, savingsRate is 0 when the monthly income is 0,
\* emergencyFundMonths is "0.0" when the monthly expenses are 0, and the
\* request succeeds.
NoDivisionByZero ==
    DashboardAnswered =>
        /\ res.status = 200
        /\ \A c \in Buckets :
            LET b == metrics.byCurrency[c] IN
            /\ b.debtRatio.d # 0
            /\ MonthlyOf(c).savingsRate.finite
            /\ MonthsOf(c).finite
            /\ b.totalAssets = 0 => b.debtRatio = Number(0)
            /\ MonthlyOf(c).income = 0 => MonthlyOf(c).savingsRate.scaled = 0
            /\ MonthlyOf(c).expenses = 0 => MonthsOf(c).scaled = 0

\* C14 happens: a bucket with liabilities and no assets, no income and no
\* expenses.
NoDivisionByZeroSeen ==
    /\ DashboardAnswered
    /\ \E c \in Buckets :
        /\ metrics.byCurrency[c].totalAssets = 0
        /\ metrics.byCurrency[c].totalLiabilities # 0
        /\ MonthlyOf(c).income = 0
        /\ MonthlyOf(c).expenses = 0

\* C15: in every bucket whose totalAssets is not 0, negative ones included,
\* debtRatio is totalLiabilities / totalAssets x 100; it is 0 in the others.
DebtRatioOfNonZeroAssets ==
    DashboardAnswered =>
        \A c \in Buckets :
            LET b == metrics.byCurrency[c] IN
            b.debtRatio = IF b.totalAssets # 0
                          THEN Times(Divide(b.totalLiabilities, b.totalAssets), 100)
                          ELSE Number(0)

\* The user has no account, no investment, no asset, no liability and no
\* transaction.
NoData(userId) ==
    /\ \A a \in AccountIds : ~(accounts[a].live /\ accounts[a].userId = userId)
    /\ \A t \in TxIds : ~(transactions[t].live /\ transactions[t].userId = userId)
    /\ \A i \in ValuationIds :
        /\ ~(valuations.investments[i].live /\ valuations.investments[i].userId = userId)
        /\ ~(valuations.assets[i].live /\ valuations.assets[i].userId = userId)
        /\ ~(valuations.liabilities[i].live /\ valuations.liabilities[i].userId = userId)

\* C16: the dashboard of a user with no data succeeds with one bucket, BRL,
\* whose totalAssets, totalLiabilities, netWorth, debtRatio, monthly income,
\* expenses and savingsRate are 0 and whose emergencyFundMonths is "0.0".
EmptyDashboard ==
    DashboardAnswered /\ NoData(metrics.userId) =>
        /\ res.status = 200
        /\ Buckets = {"BRL"}
        /\ LET b == metrics.byCurrency["BRL"] IN
            /\ b.totalAssets = 0
            /\ b.totalLiabilities = 0
            /\ b.netWorth = 0
            /\ b.debtRatio = Number(0)
            /\ MonthlyOf("BRL").income = 0
            /\ MonthlyOf("BRL").expenses = 0
            /\ MonthlyOf("BRL").savingsRate = [finite |-> TRUE, scaled |-> 0]
            /\ MonthsOf("BRL") = [finite |-> TRUE, scaled |-> 0]

\* C16 happens: the dashboard of a user with no data, while the other user
\* has an account with a balance and a transaction of the current month.
EmptyDashboardSeen ==
    /\ DashboardAnswered
    /\ NoData(metrics.userId)
    /\ \E a \in AccountIds : accounts[a].live /\ accounts[a].balance # 0
    /\ \E t \in TxIds : transactions[t].live /\ txDates[t] = "thisMonth"

\* C17: a dashboard request changes no stored account, transaction, exchange
\* or valuation, and answers what the same request answered before it when
\* no write was answered in between.
DashboardRepeatsStep ==
    res'.op \in {"dashboard", "dashboardV1"} =>
        /\ UNCHANGED <<accounts, accountInfo, transactions, txDates, exchanges, valuations>>
        /\ (metrics.op = metrics'.op /\ metrics.userId = metrics'.userId) => metrics' = metrics

EmergencyFundPerCurrency ==
    DashboardAnswered =>
        \A c \in Buckets :
            LET fund == BalancesIn(metrics.userId, c, TRUE)
                expenses == MonthIn(metrics.userId, c, "expense")
            IN  /\ FundOf(c) = fund
                /\ MonthsOf(c) = IF expenses = 0 THEN [finite |-> TRUE, scaled |-> 0]
                                 ELSE ToFixed(Divide(fund, expenses), 1)

\* C19: the monthly income and expenses of a bucket are the sums of the
\* amounts of the user's current-month transactions of each type whose
\* account has the bucket's currency.
MonthlyPerCurrency ==
    DashboardAnswered =>
        \A c \in Buckets :
            /\ MonthlyOf(c).income = MonthIn(metrics.userId, c, "income")
            /\ MonthlyOf(c).expenses = MonthIn(metrics.userId, c, "expense")

\* Amounts of whole cents: 0.01 and MaxAmount / 100.
WholeCents == {2, 2 * MaxAmount}

\* C20: no create, update or delete of a transaction or an exchange is
\* rejected or altered because it takes a balance below zero: on the owner's
\* account the request is accepted and the balance goes down by the whole
\* amount, whatever its sign becomes.
NegativeBalancePermitted ==
    \A u \in UserIds, a \in AccountIds :
        accounts[a].live /\ accounts[a].userId = u =>
            LET b == accounts[a].balance IN
            /\ nextTxId \in TxIds =>
                \A m \in WholeCents :
                    LET out == PostTransaction(Store, nextTxId, u, a, "expense", m) IN
                    /\ out.status = 200
                    /\ out.store.transactions[nextTxId].live
                    /\ out.store.accounts[a].balance = b - m \div 2
            /\ nextExId \in ExchangeIds =>
                \A t \in AccountRefs \ {a}, m \in WholeCents :
                    AccountExists(Store, t) =>
                        LET out == PostExchange(Store, nextExId, u, a, t, m, m) IN
                        /\ out.status = 200
                        /\ out.store.exchanges[nextExId].live
                        /\ out.store.accounts[a].balance = b - m \div 2
            /\ \A t \in TxIds :
                LET old == transactions[t] IN
                old.live /\ old.userId = u /\ old.accountId = a /\ old.type = "income" =>
                    /\ DeleteTransactionUnit(Store, t, u, old).accounts[a].balance
                            = b - old.amount
                    /\ \A m \in WholeCents :
                        UpdateTransactionUnit(Store, t, u, old, a, "expense", m).accounts[a].balance
                            = b - old.amount - m \div 2
            /\ \A e \in ExchangeIds :
                LET old == exchanges[e] IN
                old.live /\ old.userId = u /\ old.toAccountId = a /\ old.fromAccountId # a =>
                    DeleteExchangeUnit(Store, e, u, old).accounts[a].balance = b - old.toAmount

\* C20 happens: an accepted expense on the owner's account has left its
\* balance below zero.
NegativeBalancePermittedSeen ==
    /\ res.op = "createTransaction"
    /\ res.status = 200
    /\ transactions[res.id].live
    /\ transactions[res.id].type = "expense"
    /\ transactions[res.id].userId = res.userId
    /\ transactions[res.id].accountId \in AccountIds
    /\ accounts[transactions[res.id].accountId].userId = res.userId
    /\ accounts[transactions[res.id].accountId].balance < 0

\* C21: the delete of a category or of an income source is accepted even
\* when transactions refer to it; it changes no account and no transaction's
\* account, type or amount, removes the requester's row and leaves the
\* transactions that referred to it stored, with a null reference.
LabelDeleteStep ==
    /\ res'.op \in {"deleteCategory", "deleteCategoryScript"} =>
        /\ res'.status = 200
        /\ UNCHANGED <<accounts, transactions>>
        /\ \A k \in LabelsDeleted(categories, res'.id, res'.userId) :
            /\ ~categories'[k].live
            /\ \A t \in TxIds : txRefs[t].categoryId = k => txRefs'[t].categoryId = Null
    /\ res'.op \in {"deleteIncomeSource", "deleteIncomeSourceScript"} =>
        /\ res'.status = 200
        /\ UNCHANGED <<accounts, transactions>>
        /\ \A k \in LabelsDeleted(incomeSources, res'.id, res'.userId) :
            /\ ~incomeSources'[k].live
            /\ \A t \in TxIds : txRefs[t].incomeSourceId = k => txRefs'[t].incomeSourceId = Null

LabelDelete == [][LabelDeleteStep]_vars

\* C22: a request whose Authorization header holds no token, or a token
\* that does not verify, is answered 401, and no stored row, sequence or
\* connection changes; a request answered otherwise carried a token that
\* verified to the userId the handler ran for.
UnauthenticatedStep ==
    IF AuthMiddleware(authorization').next
    THEN res'.userId = AuthMiddleware(authorization').userId
    ELSE /\ res'.status = 401
         /\ UNCHANGED <<ledgerVars, budgetVars, reportVars, labelVars>>

Unauthenticated == [][UnauthenticatedStep]_vars

\* C23: POST /api/transactions with a body that names no account is answered
\* 400 and leaves every stored record and balance as it was.
MalformedRejected ==
    nextTxId <= MaxTxs =>
        \A u \in UserIds, t \in Types, m \in Amounts :
            LET out == PostTransaction(Store, nextTxId, u, Null, t, m)
            IN  out.status = 400 /\ out.store = Store

\* C24: PUT /api/transactions/:id that flips the type of a stored
\* transaction and keeps its amount a and its account, an account of the
\* user, moves the balance of that account by exactly 2a: up when the new
\* type is income, down when it is expense.
TypeFlipDoubles ==
    \A i \in TxIds :
        LET old == transactions[i]
            a == old.accountId
        IN  (old.live /\ a \in AccountIds /\ accounts[a].live
                      /\ accounts[a].userId = old.userId) =>
                \A type \in Types \ {old.type} :
                    LET d == UpdateTransactionUnit(Store, i, old.userId, old, a, type,
                                                   FromDecimal2(old.amount))
                    IN  /\ d.transactions[i] = [old EXCEPT !.type = type]
                        /\ d.accounts[a].balance =
                                accounts[a].balance
                                    + (IF type = "income" THEN 2 ELSE -2) * old.amount

\* A transaction stored on an account of its user has just been updated.
TypeFlipDoublesSeen ==
    \E i \in TxIds :
        /\ transactions[i].live
        /\ transactions[i].accountId \in AccountIds
        /\ accounts[transactions[i].accountId].live
        /\ accounts[transactions[i].accountId].userId = transactions[i].userId
        /\ transactions[i].amount > 0
        /\ res.op = "updateTransaction" /\ res.status = 200 /\ res.id = i

\* C25: whatever type name a transaction of one cent is posted with on an
\* account of its user, POST /api/transactions moves the balance the way the
\* dashboard will count the stored row: up by the amount when
\* type.toLowerCase() is 'income', down by it when it is 'expense'.
DirectionAsClassified ==
    nextTxId <= MaxTxs =>
        \A a \in AccountIds, type \in Types \cup TsTypes :
            accounts[a].live =>
                LET out == PostTransaction(Store, nextTxId, accounts[a].userId, a, type,
                                           FromDecimal2(1))
                    stored == out.store.transactions[nextTxId]
                    moved == out.store.accounts[a].balance - accounts[a].balance
                IN  /\ out.status = 200
                    /\ ToLowerCase(stored.type) = "income" => moved = stored.amount
                    /\ ToLowerCase(stored.type) = "expense" => moved = -stored.amount

\* C26: a connection a lifecycle handler holds has had BEGIN sent on it once
\* and neither COMMIT nor ROLLBACK yet; when the handler lets go of it, on
\* the success path, the 404 path or a failure path, it has sent exactly one
\* of COMMIT and ROLLBACK, COMMIT exactly when it answers 200, and has
\* released the connection exactly once.
UnitEndsOnceStep ==
    \A c \in Clients :
        /\ conn'[c].pc # "idle" => wire'[c] = [NoWire EXCEPT !.begins = 1]
        /\ (conn[c].pc # "idle" /\ conn'[c].pc = "idle") =>
                /\ res'.status \in {200, 404, 500}
                /\ wire'[c].begins = 1
                /\ wire'[c].commits + wire'[c].rollbacks = 1
                /\ wire'[c].commits = 1 <=> res'.status = 200
                /\ wire'[c].releases = 1

UnitEndsOnce == [][UnitEndsOnceStep]_vars

\* A handler has just answered 404 and let go of its connection while
\* another handler holds one.
UnitEndsOnceSeen ==
    \E c \in Clients, o \in Clients :
        /\ conn[c].pc = "idle" /\ wire[c].releases = 1 /\ wire[c].rollbacks = 1
        /\ res.status = 404
        /\ conn[o].pc # "idle"

\* C27: with a unit about a transaction of an account and a unit about an
\* exchange of the same account running side by side, whole-cent amounts,
\* every committed balance equals the opening balance (zero) plus the deltas
\* of the records committed: no adjustment of a unit that committed is lost.
NoLostUpdate == \A a \in AccountIds : accounts[a].live => Drift(Store, a) = 0

\* A unit has adjusted the balance of an account and not yet ended, a
\* unit about another record is at its own adjustment of the same account,
\* and a unit that ran beside another has committed before.
NoLostUpdateSeen ==
    \E c \in Clients, o \in Clients :
        /\ o # c
        /\ conn[c].touched.accounts # {}
        /\ conn[o].pc \in {"revert", "apply", "revertFrom", "applyFrom"}
        /\ AdjustArgs(conn[o]).id \in conn[c].touched.accounts
        /\ \E t \in TxIds, e \in ExchangeIds : transactions[t].live \/ exchanges[e].live

\* C28: a delete of a transaction or of an exchange that commits takes back
\* from each balance exactly the delta of the record as it is stored when the
\* delete commits, and nothing when the record is stored no longer, also
\* when another delete or an update of the same record ran beside it.
DeleteReversesOnceStep ==
    \A c \in Clients :
        (/\ conn[c].op \in {"deleteTransaction", "deleteExchange"}
         /\ conn[c].pc = "commit"
         /\ conn'[c].pc = "idle"
         /\ res'.status = 200)
        => \A a \in AccountIds :
                accounts'[a].balance - accounts[a].balance =
                    IF conn[c].op = "deleteTransaction"
                    THEN -TxDelta(transactions[conn[c].id], a)
                    ELSE -ExDelta(exchanges[conn[c].id], a)

DeleteReversesOnce == [][DeleteReversesOnceStep]_vars

\* C29: every exchange unit in progress, also one that waits for an account
\* row of a unit that waits for one of its own, comes to its answer; and a
\* unit that answers has moved both accounts by its two legs (200) or has
\* moved no balance and stored no exchange (500).
BothLegsOrNoneStep ==
    \A c \in Clients :
        (conn[c].pc # "idle" /\ conn'[c].pc = "idle") =>
            IF res'.status = 200
            THEN /\ exchanges'[res'.id].live
                 /\ \A a \in AccountIds :
                        accounts'[a].balance - accounts[a].balance =
                            ExDelta(exchanges'[res'.id], a)
            ELSE UNCHANGED <<accounts, exchanges>>

OpposedUnitsAnswer ==
    /\ \A c \in Clients : (conn[c].pc # "idle") ~> (conn[c].pc = "idle")
    /\ [][BothLegsOrNoneStep]_vars

\* The store has failed a unit that waited for the other one, its handler
\* has answered 500, and the other unit is still open with its row.
OpposedUnitsAnswerSeen ==
    /\ res.status = 500 /\ res.error = "deadlock"
    /\ \E c \in Clients : conn[c].touched.accounts # {}

\* C30: POST /api/auth/reset-password answers 200 and stores the new
\* password only while the token presented is still the stored token of the
\* user, neither used by an earlier reset nor replaced by a later
\* forgot-password, and was taken before its expiry; a reset answered 400
\* changes no row of users.
ResetTokenOnceStep ==
    /\ \A c \in Clients :
            (resetting[c].pc = "idle" /\ resetting'[c].pc = "hash") =>
                /\ users[resetting'[c].userId].resetToken = resetting'[c].token
                /\ users[resetting'[c].userId].resetTokenExpires > now
    /\ \A c \in Clients :
            (resetting[c].pc = "hash" /\ resetting'[c].pc = "idle") =>
                users[resetting[c].userId].resetToken = resetting[c].token
    /\ (res' # res /\ res'.op = "resetPassword" /\ res'.status = 400) => users' = users

ResetTokenOnce == [][ResetTokenOnceStep]_vars

====
